---- MODULE Spec2Model ----
(***************************************************************************)
(* Model of driving-test/scripts/quiz.py: the question selection engine    *)
(* and the learner-progress record it reads and rewrites.                  *)
(*                                                                         *)
(* Every invocation of the script is one command: it loads progress.json   *)
(* (or the default record when the file does not exist), computes, saves   *)
(* the whole record when the command mutates it, prints one JSON payload   *)
(* and exits.  One action of the model is one such invocation.             *)
(*                                                                         *)
(* Text is a sequence of characters; a character is a one-token string.    *)
(* The Chinese characters of the source are written as the tokens          *)
(*   "dui" (U+5BF9)  "cuo" (U+9519)  "zheng" (U+6B63)  "que" (U+786E)      *)
(*   "wu" (U+8BEF)                                                         *)
(* so that "zheng","que" is the source's two-character word for "correct"  *)
(* and "cuo","wu" its word for "incorrect".                                *)
(***************************************************************************)
EXTENDS Integers, Sequences, FiniteSets, TLC

VARIABLES
    progress_file,  \* content of progress.json, or NoFile
    last,           \* the last invocation: command, arguments, payload, exit status
    hist,           \* per question id: what the check invocations so far did
    ncmds,          \* number of invocations so far
    data,           \* content of the data directory: file name -> list of questions
    running         \* the invocations that have loaded progress.json and not yet saved

vars == <<progress_file, last, hist, ncmds, data, running>>

(***************************************************************************)
(* Bounds of the model.                                                    *)
(***************************************************************************)
\* Longest sequence of invocations explored.
MaxCmds == 3

(***************************************************************************)
(* Text: str.strip, str.upper, str.lower, str.replace, str().              *)
(***************************************************************************)
ToUpper ==
    [a |-> "A", b |-> "B", c |-> "C", d |-> "D", e |-> "E", f |-> "F",
     g |-> "G", h |-> "H", i |-> "I", j |-> "J", k |-> "K", l |-> "L",
     m |-> "M", n |-> "N", o |-> "O", p |-> "P", q |-> "Q", r |-> "R",
     s |-> "S", t |-> "T", u |-> "U", v |-> "V", w |-> "W", x |-> "X",
     y |-> "Y", z |-> "Z"]

ToLower ==
    [A |-> "a", B |-> "b", C |-> "c", D |-> "d", E |-> "e", F |-> "f",
     G |-> "g", H |-> "h", I |-> "i", J |-> "j", K |-> "k", L |-> "l",
     M |-> "m", N |-> "n", O |-> "o", P |-> "p", Q |-> "q", R |-> "r",
     S |-> "s", T |-> "t", U |-> "u", V |-> "v", W |-> "w", X |-> "x",
     Y |-> "y", Z |-> "z"]

Upper(s) == [k \in 1..Len(s) |-> IF s[k] \in DOMAIN ToUpper THEN ToUpper[s[k]] ELSE s[k]]

Lower(s) == [k \in 1..Len(s) |-> IF s[k] \in DOMAIN ToLower THEN ToLower[s[k]] ELSE s[k]]

RECURSIVE LStrip(_)
LStrip(s) == IF s # <<>> /\ Head(s) = " " THEN LStrip(Tail(s)) ELSE s

RECURSIVE RStrip(_)
RStrip(s) == IF s # <<>> /\ s[Len(s)] = " " THEN RStrip(SubSeq(s, 1, Len(s) - 1)) ELSE s

Strip(s) == RStrip(LStrip(s))

StartsWith(s, k) == Len(k) <= Len(s) /\ SubSeq(s, 1, Len(k)) = k

\* str.replace(k, v) for a non-empty k: leftmost, non-overlapping occurrences.
RECURSIVE Replace(_, _, _)
Replace(s, k, v) ==
    IF s = <<>> THEN <<>>
    ELSE IF StartsWith(s, k)
         THEN v \o Replace(SubSeq(s, Len(k) + 1, Len(s)), k, v)
         ELSE <<Head(s)>> \o Replace(Tail(s), k, v)

Digit == <<"0", "1", "2", "3", "4", "5", "6", "7", "8", "9">>

\* str(n) for n >= 0
RECURSIVE Str(_)
Str(n) == IF n < 10 THEN <<Digit[n + 1]>> ELSE Str(n \div 10) \o <<Digit[(n % 10) + 1]>>

(***************************************************************************)
(* Dictionaries (dict / JSON object) are functions; lists are sequences.   *)
(***************************************************************************)
EmptyDict == [k \in {} |-> 0]

Put(d, k, v) == [j \in DOMAIN d \cup {k} |-> IF j = k THEN v ELSE d[j]]

Get(d, k, default) == IF k \in DOMAIN d THEN d[k] ELSE default

Contains(list, x) == \E k \in 1..Len(list) : list[k] = x

\* list.remove(x): removes the first occurrence
RECURSIVE Remove(_, _)
Remove(list, x) ==
    IF list = <<>> THEN <<>>
    ELSE IF Head(list) = x THEN Tail(list)
         ELSE <<Head(list)>> \o Remove(Tail(list), x)

Min(a, b) == IF a <= b THEN a ELSE b

\* list[start:stop] with Python's reading of negative and out-of-range indices
PySlice(list, start, stop) ==
    LET n  == Len(list)
        lo == IF start < 0 THEN (IF start + n < 0 THEN 0 ELSE start + n) ELSE Min(start, n)
        hi == IF stop < 0 THEN (IF stop + n < 0 THEN 0 ELSE stop + n) ELSE Min(stop, n)
    IN  SubSeq(list, lo + 1, hi)

\* the list without its k-th element
RemoveAt(list, k) == SubSeq(list, 1, k - 1) \o SubSeq(list, k + 1, Len(list))

\* random.sample(pool, k) for 0 <= k <= len(pool): every ordered choice of k elements
RECURSIVE Samples(_, _)
Samples(pool, k) ==
    IF k = 0 THEN {<<>>}
    ELSE UNION { { <<pool[i]>> \o rest : rest \in Samples(RemoveAt(pool, i), k - 1) } :
                 i \in 1..Len(pool) }

Ids(questions) == [k \in 1..Len(questions) |-> questions[k].id]

(***************************************************************************)
(* The corpus: the data files data/{vtype}_subject{n}.json.  No command of *)
(* quiz.py writes them.  A question keeps the fields the commands read;    *)
(* its text is the sequence of the words of question + options +           *)
(* explanation.                                                            *)
(***************************************************************************)
VTYPE_ALIAS ==
    ( <<"a", "1">> :> "a1" @@ <<"a", "3">> :> "a1" @@ <<"b", "1">> :> "a1" @@
      <<"a", "2">> :> "a2" @@ <<"b", "2">> :> "a2" @@
      <<"c", "1">> :> "c1" @@ <<"c", "2">> :> "c1" @@ <<"c", "3">> :> "c1" @@
      <<"d">> :> "d" @@ <<"e">> :> "d" @@ <<"f">> :> "d" )

\* VTYPE_LABELS, in its iteration order
VTYPE_LABELS == <<"c1", "a1", "a2", "d">>

Subjects == <<1, 4>>

\* f"{vtype}_subject{subject}": the name of a data file and the key of a cursor
PosKey(vtype, subject) == <<vtype, "_subject", Str(subject)>>

Q(id, subject, category, type, answer, text) ==
    [id |-> id, subject |-> subject, category |-> category, type |-> type,
     answer |-> answer, text |-> text]

\* a data directory of two files; the other six do not exist
PracticeData ==
    ( PosKey("c1", 1) :>
        << Q(1, 1, "signals", "single", <<"B">>, <<"sign", "shape">>),
           Q(2, 1, "signals", "judge", <<"dui">>, <<"red_light", "stop">>),
           Q(3, 1, "rules", "judge", <<"cuo">>, <<"fine", "sign">>) >>
      @@
      PosKey("c1", 4) :>
        << Q(4, 4, "safety", "judge", <<"cuo", " ">>, <<"fog_lamp", "rain">>) >> )

\* the files of the data directory
DataFiles == data

\* os.path.exists(filepath)
FileExists(key) == key \in DOMAIN DataFiles

\* the ids of all questions of all data files
CorpusIds ==
    UNION { { DataFiles[key][k].id : k \in 1..Len(DataFiles[key]) } : key \in DOMAIN DataFiles }

\* Python's None, where a question or a payload is expected
None == [none |-> TRUE]

\* the outcome of resolve_vtype when the alias is unknown and sys.exit(1) is taken
NoVtype == "unsupported"

\* resolve_vtype: the canonical vehicle class of an alias
resolve_vtype(raw) ==
    LET key == Lower(Strip(raw))
    IN  IF key \in DOMAIN VTYPE_ALIAS THEN VTYPE_ALIAS[key] ELSE NoVtype

\* load_questions, past its existence test: the questions of a data file
load_questions(subject, vtype) == DataFiles[PosKey(vtype, subject)]

\* the (vtype, subject) pairs in the order find_question_by_id scans them
ScanOrder ==
    [k \in 1..(Len(VTYPE_LABELS) * Len(Subjects)) |->
        <<VTYPE_LABELS[((k - 1) \div Len(Subjects)) + 1], Subjects[((k - 1) % Len(Subjects)) + 1]>>]

\* the loop over the questions of one file: the first question with the id, or None
FirstWithId(questions, qid) ==
    LET HasId(q) == q.id = qid
        found == SelectSeq(questions, HasId)
    IN  IF found = <<>> THEN None ELSE Head(found)

RECURSIVE ScanFiles(_, _)
ScanFiles(k, qid) ==
    IF k > Len(ScanOrder) THEN None
    ELSE IF ~FileExists(PosKey(ScanOrder[k][1], ScanOrder[k][2])) THEN ScanFiles(k + 1, qid)
         ELSE LET q == FirstWithId(load_questions(ScanOrder[k][2], ScanOrder[k][1]), qid)
              IN  IF q # None THEN q ELSE ScanFiles(k + 1, qid)

\* find_question_by_id: the first question with this id, in scan order, or None
find_question_by_id(qid) == ScanFiles(1, qid)

(***************************************************************************)
(* Topic classifier.  A rule's pattern is the set of words it searches     *)
(* for; a rule applies when one of its words occurs in the question text.  *)
(* Three of the rules of TOPIC_RULES, in table order.                      *)
(***************************************************************************)
TOPIC_RULES ==
    << [name |-> "traffic_signs", pattern |-> {"sign", "marker"}],
       [name |-> "signal_lights", pattern |-> {"red_light", "green_light"}],
       [name |-> "fines", pattern |-> {"fine"}] >>

RECURSIVE TopicsFrom(_, _)
TopicsFrom(k, q) ==
    IF k > Len(TOPIC_RULES) THEN <<>>
    ELSE (IF \E j \in 1..Len(q.text) : q.text[j] \in TOPIC_RULES[k].pattern
          THEN <<TOPIC_RULES[k].name>> ELSE <<>>) \o TopicsFrom(k + 1, q)

\* get_question_topics: the labels of the rules that match, in table order
get_question_topics(q) == TopicsFrom(1, q)

(***************************************************************************)
(* The progress record.                                                    *)
(***************************************************************************)
NoFile == [no_file |-> TRUE]

_default_progress ==
    [total_answered |-> 0,
     total_correct |-> 0,
     categories |-> EmptyDict,
     wrong_questions |-> <<>>,
     favorites |-> <<>>,
     sequential_pos |-> EmptyDict,
     question_stats |-> EmptyDict,
     mock_exams |-> <<>>]

\* load_progress: the record of the file, the default record when there is no file
load_progress == IF progress_file = NoFile THEN _default_progress ELSE progress_file

\* ensure_fields: favorites, sequential_pos and question_stats are filled in when missing
ensure_fields(progress) ==
    LET p1 == IF "favorites" \in DOMAIN progress THEN progress
              ELSE Put(progress, "favorites", <<>>)
        p2 == IF "sequential_pos" \in DOMAIN p1 THEN p1
              ELSE Put(p1, "sequential_pos", EmptyDict)
    IN  IF "question_stats" \in DOMAIN p2 THEN p2
        ELSE Put(p2, "question_stats", EmptyDict)

(***************************************************************************)
(* check                                                                   *)
(***************************************************************************)
\* normalize_map of cmd_check, in its iteration order
normalize_map ==
    << <<<<"zheng", "que">>, <<"dui">>>>,
       <<<<"cuo", "wu">>, <<"cuo">>>>,
       <<<<"T", "R", "U", "E">>, <<"dui">>>>,
       <<<<"F", "A", "L", "S", "E">>, <<"cuo">>>>,
       <<<<"R", "I", "G", "H", "T">>, <<"dui">>>>,
       <<<<"W", "R", "O", "N", "G">>, <<"cuo">>>> >>

\* the loop over normalize_map: every key is replaced by its value, in order
RECURSIVE NormalizeFrom(_, _)
NormalizeFrom(k, s) ==
    IF k > Len(normalize_map) THEN s
    ELSE NormalizeFrom(k + 1, Replace(s, normalize_map[k][1], normalize_map[k][2]))

\* IsCorrect without the upper-casing of the answer given
IsCorrect_CaseSensitive(q, answer) ==
    LET user_answer == Strip(answer)
        correct_answer == Upper(Strip(q.answer))
    IN  IF q.type = "judge"
        THEN NormalizeFrom(1, user_answer) = correct_answer
        ELSE user_answer = correct_answer

\* is_correct of cmd_check
IsCorrect(q, answer) ==
    LET user_answer == Upper(Strip(answer))
        correct_answer == Upper(Strip(q.answer))
    IN  IF q.type = "judge"
        THEN NormalizeFrom(1, user_answer) = correct_answer
        ELSE user_answer = correct_answer

\* WrongAfterCheck with the removal on a correct answer left out
WrongAfterCheck_NoRemove(wrong_questions, qid, is_correct) ==
    IF is_correct THEN wrong_questions
    ELSE IF ~Contains(wrong_questions, qid) THEN Append(wrong_questions, qid)
         ELSE wrong_questions

\* WrongAfterCheck with the membership test before the append left out
WrongAfterCheck_AlwaysAppend(wrong_questions, qid, is_correct) ==
    IF is_correct
    THEN IF Contains(wrong_questions, qid) THEN Remove(wrong_questions, qid)
         ELSE wrong_questions
    ELSE Append(wrong_questions, qid)

\* wrong_questions after a check of qid
WrongAfterCheck(wrong_questions, qid, is_correct) ==
    IF is_correct
    THEN IF Contains(wrong_questions, qid) THEN Remove(wrong_questions, qid)
         ELSE wrong_questions
    ELSE IF ~Contains(wrong_questions, qid) THEN Append(wrong_questions, qid)
         ELSE wrong_questions

\* CategoriesAfterCheck counting a correct answer only the first time the id is answered
CategoriesAfterCheck_CountOnce(categories, q, is_correct) ==
    LET cat == q.category
        c0  == IF cat \in DOMAIN categories THEN categories
               ELSE Put(categories, cat, [answered |-> 0, correct |-> 0, answered_ids |-> <<>>])
        old == c0[cat]
    IN  Put(c0, cat,
            [answered |-> old.answered + 1,
             correct |-> IF is_correct /\ ~Contains(old.answered_ids, q.id)
                         THEN old.correct + 1 ELSE old.correct,
             answered_ids |-> Append(old.answered_ids, q.id)])

\* CategoriesAfterCheck listing an id in answered_ids only once
CategoriesAfterCheck_UniqueIds(categories, q, is_correct) ==
    LET cat == q.category
        c0  == IF cat \in DOMAIN categories THEN categories
               ELSE Put(categories, cat, [answered |-> 0, correct |-> 0, answered_ids |-> <<>>])
        old == c0[cat]
    IN  Put(c0, cat,
            [answered |-> old.answered + 1,
             correct |-> IF is_correct THEN old.correct + 1 ELSE old.correct,
             answered_ids |-> IF Contains(old.answered_ids, q.id) THEN old.answered_ids
                              ELSE Append(old.answered_ids, q.id)])

\* categories after a check of question q
CategoriesAfterCheck(categories, q, is_correct) ==
    LET cat == q.category
        c0  == IF cat \in DOMAIN categories THEN categories
               ELSE Put(categories, cat, [answered |-> 0, correct |-> 0, answered_ids |-> <<>>])
        old == c0[cat]
    IN  Put(c0, cat,
            [answered |-> old.answered + 1,
             correct |-> IF is_correct THEN old.correct + 1 ELSE old.correct,
             answered_ids |-> Append(old.answered_ids, q.id)])

\* StatsAfterCheck starting every entry afresh, also when the id has one
StatsAfterCheck_Fresh(question_stats, qid, is_correct) ==
    Put(question_stats, Str(qid),
        [attempts |-> 1, correct |-> IF is_correct THEN 1 ELSE 0])

\* question_stats after a check of qid
StatsAfterCheck(question_stats, qid, is_correct) ==
    LET qid_str == Str(qid)
        s0  == IF qid_str \in DOMAIN question_stats THEN question_stats
               ELSE Put(question_stats, qid_str, [attempts |-> 0, correct |-> 0])
        old == s0[qid_str]
    IN  Put(s0, qid_str,
            [attempts |-> old.attempts + 1,
             correct |-> IF is_correct THEN old.correct + 1 ELSE old.correct])

\* ProgressAfterCheck counting an id in total_answered only while it has no statistics
ProgressAfterCheck_CountOnce(progress, q, is_correct) ==
    LET p == [progress EXCEPT
                !.total_answered =
                    IF Str(q.id) \in DOMAIN progress.question_stats THEN @ ELSE @ + 1,
                !.categories = CategoriesAfterCheck(@, q, is_correct),
                !.wrong_questions = WrongAfterCheck(@, q.id, is_correct),
                !.question_stats = StatsAfterCheck(@, q.id, is_correct)]
    IN  IF is_correct THEN [p EXCEPT !.total_correct = @ + 1] ELSE p

\* the record cmd_check saves
ProgressAfterCheck(progress, q, is_correct) ==
    LET p == [progress EXCEPT
                !.total_answered = @ + 1,
                !.categories = CategoriesAfterCheck(@, q, is_correct),
                !.wrong_questions = WrongAfterCheck(@, q.id, is_correct),
                !.question_stats = StatsAfterCheck(@, q.id, is_correct)]
    IN  IF is_correct THEN [p EXCEPT !.total_correct = @ + 1] ELSE p

\* what the check invocations did to each id, kept beside the program's state
HistAfterCheck(h, qid, is_correct) ==
    [h EXCEPT ![qid] = [checks |-> @.checks + 1,
                        correct |-> IF is_correct THEN @.correct + 1 ELSE @.correct,
                        last |-> IF is_correct THEN "right" ELSE "wrong"]]

\* One invocation: the command, the arguments it ran with, the error kind of its
\* payload ("none" when it is no error payload; "Traceback" for an uncaught exception,
\* which prints no payload), the exit status of the process, whether save_progress
\* was called, and the payload printed.
Invocation(cmd, args, error, exit, saved, out) ==
    [cmd |-> cmd, args |-> args, error |-> error, exit |-> exit, saved |-> saved, out |-> out]

\* resolve_vtype printing its error and calling sys.exit(1)
ExitInvalidVtype(cmd) ==
    /\ last' = Invocation(cmd, None, "InvalidVehicleClass", 1, FALSE, None)
    /\ UNCHANGED <<progress_file, hist>>

\* load_questions printing its error and calling sys.exit(1)
ExitCorpusNotFound(cmd, vtype, subject) ==
    /\ last' = Invocation(cmd, None, "CorpusNotFound", 1, FALSE,
                          [file |-> PosKey(vtype, subject)])
    /\ UNCHANGED <<progress_file, hist>>

\* progress[key] of a key the record does not have raises KeyError: the process
\* prints a traceback and no payload, and exits with status 1
ExitKeyError(cmd, args) ==
    /\ last' = Invocation(cmd, args, "KeyError", 1, FALSE, None)
    /\ UNCHANGED <<progress_file, hist>>

\* the keys cmd_check subscripts progress with, besides those ensure_fields fills in
CheckKeys(is_correct) ==
    {"total_answered", "categories", "wrong_questions"}
        \cup (IF is_correct THEN {"total_correct"} ELSE {})

\* the answer is not kept in args: its whole effect is out.correct
cmd_check(id, answer) ==
    /\ ncmds < MaxCmds
    /\ ncmds' = ncmds + 1
    /\ UNCHANGED <<data, running>>
    /\ LET q == find_question_by_id(id)
       IN  IF q = None
           THEN /\ last' = Invocation("check", [id |-> id], "QuestionNotFound", 0, FALSE, None)
                /\ UNCHANGED <<progress_file, hist>>
           ELSE IF CheckKeys(IsCorrect(q, answer)) \ DOMAIN ensure_fields(load_progress) # {}
           THEN ExitKeyError("check", [id |-> id])
           ELSE LET is_correct == IsCorrect(q, answer)
                    progress == ProgressAfterCheck(ensure_fields(load_progress), q, is_correct)
                    qs == progress.question_stats[Str(q.id)]
                IN  /\ progress_file' = progress
                    /\ hist' = HistAfterCheck(hist, q.id, is_correct)
                    /\ last' = Invocation("check", [id |-> id], "none", 0, TRUE,
                                   [question_id |-> q.id,
                                    correct |-> is_correct,
                                    correct_answer |-> q.answer,
                                    category |-> q.category,
                                    topics |-> get_question_topics(q),
                                    errors |-> qs.attempts - qs.correct,
                                    attempts |-> qs.attempts])

(***************************************************************************)
(* sequential                                                              *)
(***************************************************************************)
\* EndPos without the clamp to the length of the corpus
EndPos_NoClamp(current_pos, count, total) == current_pos + count

\* EndPos that stops one short of the end of the corpus
EndPos_StopShort(current_pos, count, total) == Min(current_pos + count, total - 1)

\* end_pos of cmd_sequential
EndPos(current_pos, count, total) == Min(current_pos + count, total)

\* progress["sequential_pos"][pos_key] = pos
SetCursor(progress, pos_key, pos) ==
    [progress EXCEPT !.sequential_pos = Put(@, pos_key, pos)]

\* ResetCursor replacing the whole cursor table by the one reset cursor
ResetCursor_DropsOtherScopes(progress, pos_key) ==
    [progress EXCEPT !.sequential_pos = Put(EmptyDict, pos_key, 0)]

\* the record a reset saves
ResetCursor(progress, pos_key) == SetCursor(progress, pos_key, 0)

cmd_sequential(raw, subject, count, reset) ==
    /\ ncmds < MaxCmds
    /\ ncmds' = ncmds + 1
    /\ UNCHANGED <<data, running>>
    /\ LET vtype == resolve_vtype(raw)
       IN  IF vtype = NoVtype THEN ExitInvalidVtype("sequential")
           ELSE IF ~FileExists(PosKey(vtype, subject))
           THEN ExitCorpusNotFound("sequential", vtype, subject)
           ELSE
           LET questions == load_questions(subject, vtype)
               progress == ensure_fields(load_progress)
               pos_key == PosKey(vtype, subject)
               args == [vtype |-> vtype, subject |-> subject, count |-> count, reset |-> reset]
               current_pos == Get(progress.sequential_pos, pos_key, 0)
               total == Len(questions)
               end_pos == EndPos(current_pos, count, total)
               selected == PySlice(questions, current_pos, end_pos)
           IN  /\ UNCHANGED hist
               /\ IF reset
                  THEN /\ progress_file' = ResetCursor(progress, pos_key)
                       /\ last' = Invocation("sequential", args, "none", 0, TRUE,
                                      [message |-> "reset", position |-> 0,
                                       total |-> Len(questions), questions |-> <<>>])
                  ELSE IF current_pos >= total
                  THEN /\ UNCHANGED progress_file
                       /\ last' = Invocation("sequential", args, "none", 0, FALSE,
                                      [message |-> "completed", position |-> current_pos,
                                       total |-> total, questions |-> <<>>])
                  ELSE /\ progress_file' = SetCursor(progress, pos_key, end_pos)
                       /\ last' =
                            IF total = 0
                            THEN \* end_pos / total raises ZeroDivisionError after the save
                                 Invocation("sequential", args, "Traceback", 1, TRUE, None)
                            ELSE Invocation("sequential", args, "none", 0, TRUE,
                                      [message |-> "questions",
                                       position |-> current_pos + 1,
                                       end_position |-> end_pos,
                                       total |-> total,
                                       remaining |-> total - end_pos,
                                       count |-> Len(selected),
                                       questions |-> Ids(selected)])

(***************************************************************************)
(* favorite, unfavorite                                                    *)
(***************************************************************************)
\* cmd_favorite without the lookup of the question
cmd_favorite_NoLookup(qid) ==
    /\ ncmds < MaxCmds
    /\ ncmds' = ncmds + 1
    /\ UNCHANGED <<data, running>>
    /\ UNCHANGED hist
    /\ LET progress == ensure_fields(load_progress)
       IN  IF ~Contains(progress.favorites, qid)
           THEN /\ progress_file' = [progress EXCEPT !.favorites = Append(@, qid)]
                /\ last' = Invocation("favorite", [id |-> qid], "none", 0, TRUE,
                               [action |-> "favorited",
                                total_favorites |-> Len(progress.favorites) + 1])
           ELSE /\ UNCHANGED progress_file
                /\ last' = Invocation("favorite", [id |-> qid], "none", 0, FALSE,
                               [action |-> "already_favorited",
                                total_favorites |-> Len(progress.favorites)])

\* cmd_favorite without the test `qid not in progress["favorites"]`
cmd_favorite_AlwaysAppend(qid) ==
    /\ ncmds < MaxCmds
    /\ ncmds' = ncmds + 1
    /\ UNCHANGED <<data, running>>
    /\ UNCHANGED hist
    /\ LET progress == ensure_fields(load_progress)
           q == find_question_by_id(qid)
       IN  IF q = None
           THEN /\ last' = Invocation("favorite", [id |-> qid], "QuestionNotFound", 0, FALSE, None)
                /\ UNCHANGED progress_file
           ELSE /\ progress_file' = [progress EXCEPT !.favorites = Append(@, qid)]
                /\ last' = Invocation("favorite", [id |-> qid], "none", 0, TRUE,
                               [action |-> "favorited",
                                total_favorites |-> Len(progress.favorites) + 1])

cmd_favorite(qid) ==
    /\ ncmds < MaxCmds
    /\ ncmds' = ncmds + 1
    /\ UNCHANGED <<data, running>>
    /\ UNCHANGED hist
    /\ LET progress == ensure_fields(load_progress)
           q == find_question_by_id(qid)
       IN  IF q = None
           THEN /\ last' = Invocation("favorite", [id |-> qid], "QuestionNotFound", 0, FALSE, None)
                /\ UNCHANGED progress_file
           ELSE IF ~Contains(progress.favorites, qid)
           THEN /\ progress_file' = [progress EXCEPT !.favorites = Append(@, qid)]
                /\ last' = Invocation("favorite", [id |-> qid], "none", 0, TRUE,
                               [action |-> "favorited",
                                total_favorites |-> Len(progress.favorites) + 1])
           ELSE /\ UNCHANGED progress_file
                /\ last' = Invocation("favorite", [id |-> qid], "none", 0, FALSE,
                               [action |-> "already_favorited",
                                total_favorites |-> Len(progress.favorites)])

cmd_unfavorite(qid) ==
    /\ ncmds < MaxCmds
    /\ ncmds' = ncmds + 1
    /\ UNCHANGED <<data, running>>
    /\ UNCHANGED hist
    /\ LET progress == ensure_fields(load_progress)
       IN  IF Contains(progress.favorites, qid)
           THEN /\ progress_file' = [progress EXCEPT !.favorites = Remove(@, qid)]
                /\ last' = Invocation("unfavorite", [id |-> qid], "none", 0, TRUE,
                               [action |-> "unfavorited",
                                total_favorites |-> Len(progress.favorites) - 1])
           ELSE /\ UNCHANGED progress_file
                /\ last' = Invocation("unfavorite", [id |-> qid], "none", 0, FALSE,
                               [action |-> "not_in_favorites"])

(***************************************************************************)
(* record-exam                                                             *)
(***************************************************************************)
\* "passed" of an exam record: the pass mark of cmd_record_exam
PassScore == 90

\* cmd_record_exam that puts the new record first
cmd_record_exam_Prepend(raw, subject, score, total, now) ==
    /\ ncmds < MaxCmds
    /\ ncmds' = ncmds + 1
    /\ UNCHANGED <<data, running>>
    /\ UNCHANGED hist
    /\ LET vtype == resolve_vtype(raw)
       IN  IF vtype = NoVtype THEN ExitInvalidVtype("record-exam")
           ELSE
           LET progress == ensure_fields(load_progress)
               record == [date |-> now, vehicle_type |-> vtype, subject |-> subject,
                          score |-> score, total |-> total, passed |-> score >= PassScore]
           IN  /\ progress_file' = [progress EXCEPT !.mock_exams = <<record>> \o @]
               /\ last' = Invocation("record-exam", None, "none", 0, TRUE,
                              [recorded |-> TRUE, passed |-> score >= PassScore])

cmd_record_exam(raw, subject, score, total, now) ==
    /\ ncmds < MaxCmds
    /\ ncmds' = ncmds + 1
    /\ UNCHANGED <<data, running>>
    /\ UNCHANGED hist
    /\ LET vtype == resolve_vtype(raw)
       IN  IF vtype = NoVtype THEN ExitInvalidVtype("record-exam")
           ELSE
           LET progress == ensure_fields(load_progress)
               record == [date |-> now, vehicle_type |-> vtype, subject |-> subject,
                          score |-> score, total |-> total, passed |-> score >= PassScore]
           IN  IF "mock_exams" \notin DOMAIN progress
               THEN ExitKeyError("record-exam", None)
               ELSE /\ progress_file' = [progress EXCEPT !.mock_exams = Append(@, record)]
                    /\ last' = Invocation("record-exam", None, "none", 0, TRUE,
                                   [recorded |-> TRUE, passed |-> score >= PassScore])

(***************************************************************************)
(* random, topic-practice                                                  *)
(***************************************************************************)
\* DoneIds holding only the ids that are currently wrong
DoneIds_WrongOnly(progress) ==
    LET wrong_questions == Get(progress, "wrong_questions", <<>>)
    IN  { wrong_questions[k] : k \in 1..Len(wrong_questions) }

\* done_ids of cmd_random: every id of every category's answered_ids
DoneIds(progress) ==
    LET categories == Get(progress, "categories", EmptyDict)
    IN  UNION { { categories[c].answered_ids[k] : k \in 1..Len(categories[c].answered_ids) } :
                c \in DOMAIN categories }

\* --category is "" when it is not given (None and "" are both false in the test)
cmd_random(raw, subject, count_arg, category, exclude_done) ==
    /\ ncmds < MaxCmds
    /\ ncmds' = ncmds + 1
    /\ UNCHANGED <<data, running>>
    /\ UNCHANGED <<progress_file, hist>>
    /\ LET vtype == resolve_vtype(raw)
       IN  IF vtype = NoVtype THEN ExitInvalidVtype("random")
           ELSE IF ~FileExists(PosKey(vtype, subject))
           THEN ExitCorpusNotFound("random", vtype, subject)
           ELSE
           LET all == load_questions(subject, vtype)
               InCategory(q) == q.category = category
               in_cat == IF category # "" THEN SelectSeq(all, InCategory) ELSE all
               done_ids == DoneIds(ensure_fields(load_progress))
               NotDone(q) == q.id \notin done_ids
               questions == IF exclude_done THEN SelectSeq(in_cat, NotDone) ELSE in_cat
               count == Min(count_arg, Len(questions))
               args == [vtype |-> vtype, subject |-> subject, category |-> category,
                        exclude_done |-> exclude_done]
           IN  IF category # "" /\ in_cat = <<>>
               THEN last' = Invocation("random", args, "UnknownCategory", 0, FALSE, None)
               ELSE IF count < 0
               THEN \* random.sample raises ValueError
                    last' = Invocation("random", args, "Traceback", 1, FALSE, None)
               ELSE \E selected \in Samples(questions, count) :
                    last' = Invocation("random", args, "none", 0, FALSE,
                                [total_available |-> Len(questions), count |-> count,
                                 questions |-> Ids(selected)])

cmd_topic_practice(raw, subject, topic, count_arg) ==
    /\ ncmds < MaxCmds
    /\ ncmds' = ncmds + 1
    /\ UNCHANGED <<data, running>>
    /\ UNCHANGED <<progress_file, hist>>
    /\ LET vtype == resolve_vtype(raw)
       IN  IF vtype = NoVtype THEN ExitInvalidVtype("topic-practice")
           ELSE IF ~FileExists(PosKey(vtype, subject))
           THEN ExitCorpusNotFound("topic-practice", vtype, subject)
           ELSE
           LET questions == load_questions(subject, vtype)
               HasTopic(q) == Contains(get_question_topics(q), topic)
               matched == SelectSeq(questions, HasTopic)
               count == Min(count_arg, Len(matched))
               args == [vtype |-> vtype, subject |-> subject, topic |-> topic]
           IN  IF matched = <<>>
               THEN last' = Invocation("topic-practice", args, "UnknownTopic", 0, FALSE, None)
               ELSE IF count < 0
               THEN last' = Invocation("topic-practice", args, "Traceback", 1, FALSE, None)
               ELSE \E selected \in Samples(matched, count) :
                    last' = Invocation("topic-practice", args, "none", 0, FALSE,
                                [total_available |-> Len(matched), count |-> count,
                                 questions |-> Ids(selected)])

(***************************************************************************)
(* top500                                                                  *)
(***************************************************************************)
\* target of cmd_top500: the size the curated list is cut to
target == 500

Max(a, b) == IF a >= b THEN a ELSE b

\* the elements of a list
Elems(list) == { list[k] : k \in 1..Len(list) }

\* the keys of by_cat, in insertion order: the categories of the pool by first occurrence
CategoryOrder(pool) ==
    LET IsFirst(k) == \A j \in 1..(k - 1) : pool[j].category # pool[k].category
        firsts == SelectSeq([k \in 1..Len(pool) |-> k], IsFirst)
    IN  [j \in 1..Len(firsts) |-> pool[firsts[j]].category]

\* by_cat of cmd_top500: the questions of the pool, category by category
ByCat(pool) ==
    LET cats == CategoryOrder(pool)
    IN  [j \in 1..Len(cats) |->
            LET InCat(q) == q.category = cats[j] IN SelectSeq(pool, InCat)]

\* the loop over by_cat[lo..hi]: min(per_cat, len) questions sampled from each
\* category, appended in the order of the categories (the range is halved so that
\* the evaluation nests only as deep as the logarithm of the number of categories)
RECURSIVE SampleRange(_, _, _, _)
SampleRange(by_cat, per_cat, lo, hi) ==
    IF lo > hi THEN {<<>>}
    ELSE IF lo = hi THEN Samples(by_cat[lo], Min(per_cat, Len(by_cat[lo])))
    ELSE LET mid == (lo + hi) \div 2
         IN  { a \o b : a \in SampleRange(by_cat, per_cat, lo, mid),
                        b \in SampleRange(by_cat, per_cat, mid + 1, hi) }

SampleEach(by_cat, per_cat) == SampleRange(by_cat, per_cat, 1, Len(by_cat))

\* Top500Selected with the wrong questions appended after the samples
Top500Selected_WrongLast(wrong_pool, unanswered_pool, correct_pool) ==
    LET remaining1 == target - Len(wrong_pool)
        by_cat == ByCat(unanswered_pool)
        per_cat == Max(1, remaining1 \div Len(by_cat))
        from_unanswered ==
            IF remaining1 > 0 /\ unanswered_pool # <<>>
            THEN SampleEach(by_cat, per_cat) ELSE {<<>>}
    IN  UNION { LET remaining2 == target - (Len(wrong_pool) + Len(u))
                    from_correct ==
                        IF remaining2 > 0 /\ correct_pool # <<>>
                        THEN Samples(correct_pool, Min(remaining2, Len(correct_pool)))
                        ELSE {<<>>}
                IN  { PySlice(u \o c \o wrong_pool, 0, target) : c \in from_correct } :
                u \in from_unanswered }

\* Top500Selected without the cut selected[:target]
Top500Selected_NoCut(wrong_pool, unanswered_pool, correct_pool) ==
    LET remaining1 == target - Len(wrong_pool)
        by_cat == ByCat(unanswered_pool)
        per_cat == Max(1, remaining1 \div Len(by_cat))
        from_unanswered ==
            IF remaining1 > 0 /\ unanswered_pool # <<>>
            THEN SampleEach(by_cat, per_cat) ELSE {<<>>}
    IN  UNION { LET remaining2 == target - (Len(wrong_pool) + Len(u))
                    from_correct ==
                        IF remaining2 > 0 /\ correct_pool # <<>>
                        THEN Samples(correct_pool, Min(remaining2, Len(correct_pool)))
                        ELSE {<<>>}
                IN  { wrong_pool \o u \o c : c \in from_correct } :
                u \in from_unanswered }

\* the lists `selected` can be after selected[:target], before the shuffle
Top500Selected(wrong_pool, unanswered_pool, correct_pool) ==
    LET remaining1 == target - Len(wrong_pool)
        by_cat == ByCat(unanswered_pool)
        per_cat == Max(1, remaining1 \div Len(by_cat))
        from_unanswered ==
            IF remaining1 > 0 /\ unanswered_pool # <<>>
            THEN SampleEach(by_cat, per_cat) ELSE {<<>>}
    IN  UNION { LET remaining2 == target - (Len(wrong_pool) + Len(u))
                    from_correct ==
                        IF remaining2 > 0 /\ correct_pool # <<>>
                        THEN Samples(correct_pool, Min(remaining2, Len(correct_pool)))
                        ELSE {<<>>}
                IN  { PySlice(wrong_pool \o u \o c, 0, target) : c \in from_correct } :
                u \in from_unanswered }

\* out.selected is the curated list before random.shuffle; the payload does not print it.
\* random.shuffle followed by selected[:count] is every ordered choice of as many
\* questions as the slice holds.
cmd_top500(raw, subject, count_arg) ==
    /\ ncmds < MaxCmds
    /\ ncmds' = ncmds + 1
    /\ UNCHANGED <<data, running>>
    /\ UNCHANGED <<progress_file, hist>>
    /\ LET vtype == resolve_vtype(raw)
       IN  IF vtype = NoVtype THEN ExitInvalidVtype("top500")
           ELSE IF ~FileExists(PosKey(vtype, subject))
           THEN ExitCorpusNotFound("top500", vtype, subject)
           ELSE
           LET questions == load_questions(subject, vtype)
               progress == ensure_fields(load_progress)
               wrong_ids == Elems(Get(progress, "wrong_questions", <<>>))
               answered_ids == DoneIds(progress)
               IsWrong(q) == q.id \in wrong_ids
               IsUnanswered(q) == q.id \notin wrong_ids /\ q.id \notin answered_ids
               IsReviewed(q) == q.id \notin wrong_ids /\ q.id \in answered_ids
               wrong_pool == SelectSeq(questions, IsWrong)
               unanswered_pool == SelectSeq(questions, IsUnanswered)
               correct_pool == SelectSeq(questions, IsReviewed)
               args == [vtype |-> vtype, subject |-> subject, count |-> count_arg]
           IN  \E selected \in Top500Selected(wrong_pool, unanswered_pool, correct_pool) :
               LET count == Min(count_arg, Len(selected))
               IN  \E batch \in Samples(selected, Len(PySlice(selected, 0, count))) :
                   last' = Invocation("top500", args, "none", 0, FALSE,
                               [total_selected |-> Len(selected),
                                composition |->
                                    [wrong |-> Len(wrong_pool),
                                     unanswered |-> Len(SelectSeq(selected, IsUnanswered)),
                                     reviewed |-> Len(SelectSeq(selected, IsReviewed))],
                                count |-> count,
                                questions |-> Ids(batch),
                                selected |-> Ids(selected)])

(***************************************************************************)
(* list.sort(key=...) and the "%.0f" / "%.1f" formats.                      *)
(***************************************************************************)
\* A sort key is <<n, d, t>>: the pair (n/d, t) with d > 0, compared as Python compares
\* tuples.  The floats n/d of the code are equal exactly when the fractions are, and
\* ordered as the fractions are, for the attempt counts of this model.
KeyLess(x, y) ==
    \/ x[1] * y[2] < y[1] * x[2]
    \/ x[1] * y[2] = y[1] * x[2] /\ x[3] < y[3]

\* list.sort on a list of [key, item]: ascending by key, stable
RECURSIVE StableSort(_)
StableSort(list) ==
    IF list = <<>> THEN <<>>
    ELSE LET e == list[Len(list)]
             sorted == StableSort(SubSeq(list, 1, Len(list) - 1))
             n == Cardinality({ k \in 1..Len(sorted) : ~KeyLess(e.key, sorted[k].key) })
         IN  SubSeq(sorted, 1, n) \o <<e>> \o SubSeq(sorted, n + 1, Len(sorted))

\* round(num / den * scale) to the nearest integer, ties to the even one: the digits
\* of f"{num/den*100:.0f}" (scale 100) and of f"{num/den*100:.1f}" (scale 1000).
\* The floats of the code round the same way for den < 40.
RoundHalfEven(num, den, scale) ==
    LET q == (scale * num) \div den
        r == (scale * num) % den
    IN  IF 2 * r < den THEN q
        ELSE IF 2 * r > den THEN q + 1
        ELSE IF q % 2 = 0 THEN q ELSE q + 1

\* f"{num/den*100:.0f}%"
Pct0(num, den) == Str(RoundHalfEven(num, den, 100)) \o <<"%">>

\* f"{num/den*100:.1f}%"
Pct1(num, den) ==
    LET t == RoundHalfEven(num, den, 1000)
    IN  Str(t \div 10) \o <<".">> \o Str(t % 10) \o <<"%">>

(***************************************************************************)
(* hard                                                                    *)
(***************************************************************************)
\* Scored with the error rate as the whole sort key
Scored_RateOnly(questions, q_stats) ==
    LET Attempted(q) ==
            /\ Str(q.id) \in DOMAIN q_stats
            /\ q_stats[Str(q.id)].attempts > 0
        eligible == SelectSeq(questions, Attempted)
    IN  [k \in 1..Len(eligible) |->
            LET st == q_stats[Str(eligible[k].id)]
            IN  [key |-> <<st.correct - st.attempts, st.attempts, 0>>,
                 item |-> [id |-> eligible[k].id,
                           topics |-> get_question_topics(eligible[k]),
                           error_rate |-> Pct0(st.attempts - st.correct, st.attempts),
                           attempts |-> st.attempts]]]

\* scored of cmd_hard: the questions with at least one attempt, in corpus order, each
\* with its sort key (-error_rate, -attempts); error_rate = 1 - correct/attempts
Scored(questions, q_stats) ==
    LET Attempted(q) ==
            /\ Str(q.id) \in DOMAIN q_stats
            /\ q_stats[Str(q.id)].attempts > 0
        eligible == SelectSeq(questions, Attempted)
    IN  [k \in 1..Len(eligible) |->
            LET st == q_stats[Str(eligible[k].id)]
            IN  [key |-> <<st.correct - st.attempts, st.attempts, 0 - st.attempts>>,
                 item |-> [id |-> eligible[k].id,
                           topics |-> get_question_topics(eligible[k]),
                           error_rate |-> Pct0(st.attempts - st.correct, st.attempts),
                           attempts |-> st.attempts]]]

cmd_hard(raw, subject, count_arg) ==
    /\ ncmds < MaxCmds
    /\ ncmds' = ncmds + 1
    /\ UNCHANGED <<data, running>>
    /\ UNCHANGED <<progress_file, hist>>
    /\ LET vtype == resolve_vtype(raw)
       IN  IF vtype = NoVtype THEN ExitInvalidVtype("hard")
           ELSE IF ~FileExists(PosKey(vtype, subject))
           THEN ExitCorpusNotFound("hard", vtype, subject)
           ELSE
           LET questions == load_questions(subject, vtype)
               progress == ensure_fields(load_progress)
               q_stats == Get(progress, "question_stats", EmptyDict)
               scored == StableSort(Scored(questions, q_stats))
               count == Min(count_arg, Len(scored))
               selected == PySlice(scored, 0, count)
               args == [vtype |-> vtype, subject |-> subject, count |-> count_arg]
           IN  IF scored = <<>>
               THEN last' = Invocation("hard", args, "none", 0, FALSE,
                                [message |-> "no_records", questions |-> <<>>])
               ELSE last' = Invocation("hard", args, "none", 0, FALSE,
                                [total_with_stats |-> Len(scored),
                                 count |-> count,
                                 questions |-> [k \in 1..Len(selected) |-> selected[k].item]])

(***************************************************************************)
(* exam, categories, topics                                                *)
(***************************************************************************)
cmd_exam(raw, subject) ==
    /\ ncmds < MaxCmds
    /\ ncmds' = ncmds + 1
    /\ UNCHANGED <<data, running>>
    /\ UNCHANGED <<progress_file, hist>>
    /\ LET vtype == resolve_vtype(raw)
       IN  IF vtype = NoVtype THEN ExitInvalidVtype("exam")
           ELSE IF ~FileExists(PosKey(vtype, subject))
           THEN ExitCorpusNotFound("exam", vtype, subject)
           ELSE
           LET questions == load_questions(subject, vtype)
               exam_count == Min(IF subject = 1 THEN 100 ELSE 50, Len(questions))
               args == [vtype |-> vtype, subject |-> subject]
           IN  \E selected \in Samples(questions, exam_count) :
               last' = Invocation("exam", args, "none", 0, FALSE,
                           [total_questions |-> exam_count,
                            pass_score |-> 90,
                            time_limit_minutes |-> IF subject = 1 THEN 45 ELSE 30,
                            questions |-> Ids(selected)])

\* the values of a list, each once, in the order of their first occurrence
FirstOccurrences(list) ==
    LET IsFirst(k) == \A j \in 1..(k - 1) : list[j] # list[k]
        firsts == SelectSeq([k \in 1..Len(list) |-> k], IsFirst)
    IN  [j \in 1..Len(firsts) |-> list[firsts[j]]]

\* the accuracy column of cmd_categories
AccuracyText(p) ==
    IF p.answered > 0 THEN Pct0(p.correct, p.answered) ELSE <<"not_practised">>

cmd_categories(raw, subject) ==
    /\ ncmds < MaxCmds
    /\ ncmds' = ncmds + 1
    /\ UNCHANGED <<data, running>>
    /\ UNCHANGED <<progress_file, hist>>
    /\ LET vtype == resolve_vtype(raw)
       IN  IF vtype = NoVtype THEN ExitInvalidVtype("categories")
           ELSE IF ~FileExists(PosKey(vtype, subject))
           THEN ExitCorpusNotFound("categories", vtype, subject)
           ELSE
           LET questions == load_questions(subject, vtype)
               progress == ensure_fields(load_progress)
               names == CategoryOrder(questions)
               Count(cat, type) ==
                   Cardinality({ k \in 1..Len(questions) :
                                   questions[k].category = cat /\ questions[k].type = type })
               Total(cat) ==
                   Cardinality({ k \in 1..Len(questions) : questions[k].category = cat })
               Entry(cat) ==
                   LET p == Get(Get(progress, "categories", EmptyDict), cat,
                                [answered |-> 0, correct |-> 0])
                   IN  [name |-> cat,
                        total |-> Total(cat),
                        types |-> [single |-> Count(cat, "single"),
                                   judge |-> Count(cat, "judge"),
                                   multi |-> Count(cat, "multi")],
                        answered |-> p.answered,
                        correct |-> p.correct,
                        accuracy |-> AccuracyText(p)]
               result == StableSort([k \in 1..Len(names) |->
                                        [key |-> <<0 - Total(names[k]), 1, 0>>,
                                         item |-> Entry(names[k])]])
               args == [vtype |-> vtype, subject |-> subject]
           IN  last' = Invocation("categories", args, "none", 0, FALSE,
                           [categories |-> [k \in 1..Len(result) |-> result[k].item]])

\* the topics of the questions from the k-th on, one after the other
RECURSIVE TopicsOfAll(_, _)
TopicsOfAll(questions, k) ==
    IF k > Len(questions) THEN <<>>
    ELSE get_question_topics(questions[k]) \o TopicsOfAll(questions, k + 1)

\* has_mnemonic, which is read from mnemonics.json, is not in the payload of the model
cmd_topics(raw, subject) ==
    /\ ncmds < MaxCmds
    /\ ncmds' = ncmds + 1
    /\ UNCHANGED <<data, running>>
    /\ UNCHANGED <<progress_file, hist>>
    /\ LET vtype == resolve_vtype(raw)
       IN  IF vtype = NoVtype THEN ExitInvalidVtype("topics")
           ELSE IF ~FileExists(PosKey(vtype, subject))
           THEN ExitCorpusNotFound("topics", vtype, subject)
           ELSE
           LET questions == load_questions(subject, vtype)
               progress == ensure_fields(load_progress)
               names == FirstOccurrences(TopicsOfAll(questions, 1))
               answered_ids == DoneIds(progress)
               wrong_ids == Elems(Get(progress, "wrong_questions", <<>>))
               IdsOf(t) == { questions[k].id : k \in
                               { j \in 1..Len(questions) :
                                   Contains(get_question_topics(questions[j]), t) } }
               TotalOf(t) == Len(SelectSeq(TopicsOfAll(questions, 1), LAMBDA x : x = t))
               Entry(t) ==
                   [topic |-> t,
                    total |-> TotalOf(t),
                    answered |-> Cardinality(IdsOf(t) \cap answered_ids),
                    wrong |-> Cardinality(IdsOf(t) \cap wrong_ids),
                    progress |-> Pct0(Cardinality(IdsOf(t) \cap answered_ids), TotalOf(t))]
               result == StableSort([k \in 1..Len(names) |->
                                        [key |-> <<0 - TotalOf(names[k]), 1, 0>>,
                                         item |-> Entry(names[k])]])
               args == [vtype |-> vtype, subject |-> subject]
           IN  last' = Invocation("topics", args, "none", 0, FALSE,
                           [topics |-> [k \in 1..Len(result) |-> result[k].item]])

(***************************************************************************)
(* stats, wrong, favorites                                                 *)
(***************************************************************************)
\* the orders in which a dict can hold its keys
KeyOrders(d) ==
    { order \in [1..Cardinality(DOMAIN d) -> DOMAIN d] :
         \A i, j \in 1..Cardinality(DOMAIN d) : i # j => order[i] # order[j] }

\* weak_categories of cmd_stats, for the categories taken in the given order: answered
\* at least 5 times with an accuracy below 80, sorted by the accuracy as printed
WeakCategories(categories, order) ==
    LET IsWeak(cat) ==
            /\ categories[cat].answered >= 5
            /\ categories[cat].correct * 100 < 80 * categories[cat].answered
        weak == SelectSeq(order, IsWeak)
    IN  StableSort([k \in 1..Len(weak) |->
            LET c == categories[weak[k]]
            IN  [key |-> <<RoundHalfEven(c.correct, c.answered, 100), 1, 0>>,
                 item |-> [name |-> weak[k],
                           accuracy |-> Pct0(c.correct, c.answered),
                           answered |-> c.answered]]])

\* seq_progress of cmd_stats; the "total" a data file states is the number of its questions
SeqProgress(sequential_pos) ==
    [key \in DOMAIN sequential_pos |->
        LET pos == sequential_pos[key]
            total == IF FileExists(key) THEN Len(DataFiles[key]) ELSE 0
        IN  [position |-> pos,
             total |-> total,
             progress |-> IF total > 0 /\ pos >= 0 THEN Pct1(pos, total)
                          ELSE IF total > 0 THEN <<"-">> \o Pct1(0 - pos, total)
                          ELSE <<"0", "%">>]]

\* cmd_stats that writes the record back once ensure_fields has filled it in
cmd_stats_SavesRepaired ==
    /\ ncmds < MaxCmds
    /\ ncmds' = ncmds + 1
    /\ UNCHANGED <<data, running, hist>>
    /\ progress_file' = ensure_fields(load_progress)
    /\ last' = Invocation("stats", None, "none", 0, TRUE,
                 [total_answered |-> Get(progress_file', "total_answered", 0)])

\* a dict of Python keeps its keys in insertion order, the record of the model does
\* not: the categories are taken in every order
cmd_stats ==
    /\ ncmds < MaxCmds
    /\ ncmds' = ncmds + 1
    /\ UNCHANGED <<data, running>>
    /\ UNCHANGED <<progress_file, hist>>
    /\ LET progress == ensure_fields(load_progress)
       IN  IF {"total_answered", "total_correct", "wrong_questions"} \ DOMAIN progress # {}
           THEN ExitKeyError("stats", None)
           ELSE
           LET categories == Get(progress, "categories", EmptyDict)
               mock_exams == Get(progress, "mock_exams", <<>>)
           IN  \E order \in KeyOrders(categories) :
               LET weak_categories == WeakCategories(categories, order)
               IN  last' = Invocation("stats", None, "none", 0, FALSE,
                       [total_answered |-> progress.total_answered,
                        total_correct |-> progress.total_correct,
                        accuracy |-> IF progress.total_answered > 0
                                     THEN Pct1(progress.total_correct, progress.total_answered)
                                     ELSE Pct1(0, 1),
                        wrong_count |-> Len(progress.wrong_questions),
                        favorites_count |-> Len(Get(progress, "favorites", <<>>)),
                        weak_categories |->
                            [k \in 1..Len(PySlice(weak_categories, 0, 5)) |->
                                weak_categories[k].item],
                        sequential_progress |->
                            SeqProgress(Get(progress, "sequential_pos", EmptyDict)),
                        mock_exams |-> PySlice(mock_exams, -5, Len(mock_exams))])

\* the questions of the files scanned (every class; the subject given, or both when
\* subject_arg is 0 for "not given") whose id is in ids, in scan order
RECURSIVE ScanForIds(_, _, _)
ScanForIds(k, ids, subject_arg) ==
    IF k > Len(ScanOrder) THEN <<>>
    ELSE LET vtype == ScanOrder[k][1]
             subj == ScanOrder[k][2]
             HasId(q) == q.id \in ids
         IN  (IF (subject_arg = 0 \/ subject_arg = subj) /\ FileExists(PosKey(vtype, subj))
              THEN SelectSeq(load_questions(subj, vtype), HasId)
              ELSE <<>>) \o ScanForIds(k + 1, ids, subject_arg)

\* --subject and --count are 0 when they are not given (None and 0 are both false)
cmd_wrong(subject_arg, count_arg) ==
    /\ ncmds < MaxCmds
    /\ ncmds' = ncmds + 1
    /\ UNCHANGED <<data, running>>
    /\ UNCHANGED <<progress_file, hist>>
    /\ LET progress == ensure_fields(load_progress)
           wrong_ids == Elems(Get(progress, "wrong_questions", <<>>))
           wrong_questions == ScanForIds(1, wrong_ids, subject_arg)
           args == [subject |-> subject_arg, count |-> count_arg]
       IN  IF wrong_ids = {}
           THEN last' = Invocation("wrong", args, "none", 0, FALSE,
                            [message |-> "no_wrong_questions", count |-> 0])
           ELSE IF count_arg # 0 /\ Len(wrong_questions) > count_arg
           THEN IF count_arg < 0
                THEN \* random.sample raises ValueError
                     last' = Invocation("wrong", args, "Traceback", 1, FALSE, None)
                ELSE \E sample \in Samples(wrong_questions, count_arg) :
                     last' = Invocation("wrong", args, "none", 0, FALSE,
                                 [total_wrong |-> Cardinality(wrong_ids),
                                  showing |-> Len(sample),
                                  questions |-> Ids(sample)])
           ELSE last' = Invocation("wrong", args, "none", 0, FALSE,
                            [total_wrong |-> Cardinality(wrong_ids),
                             showing |-> Len(wrong_questions),
                             questions |-> Ids(wrong_questions)])

cmd_favorites(subject_arg, count_arg) ==
    /\ ncmds < MaxCmds
    /\ ncmds' = ncmds + 1
    /\ UNCHANGED <<data, running>>
    /\ UNCHANGED <<progress_file, hist>>
    /\ LET progress == ensure_fields(load_progress)
           fav_ids == Elems(Get(progress, "favorites", <<>>))
           fav_questions == ScanForIds(1, fav_ids, subject_arg)
           args == [subject |-> subject_arg, count |-> count_arg]
       IN  IF fav_ids = {}
           THEN last' = Invocation("favorites", args, "none", 0, FALSE,
                            [message |-> "no_favorites", count |-> 0])
           ELSE IF count_arg # 0 /\ Len(fav_questions) > count_arg
           THEN IF count_arg < 0
                THEN last' = Invocation("favorites", args, "Traceback", 1, FALSE, None)
                ELSE \E sample \in Samples(fav_questions, count_arg) :
                     last' = Invocation("favorites", args, "none", 0, FALSE,
                                 [total_favorites |-> Cardinality(fav_ids),
                                  showing |-> Len(sample),
                                  questions |-> Ids(sample)])
           ELSE last' = Invocation("favorites", args, "none", 0, FALSE,
                            [total_favorites |-> Cardinality(fav_ids),
                             showing |-> Len(fav_questions),
                             questions |-> Ids(fav_questions)])

(***************************************************************************)
(* The inputs the invocations are given.                                   *)
(***************************************************************************)
\* --id: the ids of the corpus and one id of no question
IdArgs == CorpusIds \cup {99}

\* --id of favorite and unfavorite
FavoriteArgs == {1, 4, 99}

\* --answer
AnswerArgs == { <<"b", " ">>, <<"t", "r", "u", "e">>, <<"cuo", "wu">> }

\* --vtype: an alias of c1 (whose files exist), a class with no file, no class
VtypeArgs == { <<" ", "C", "2">>, <<"d">>, <<"x">> }

SubjectArgs == {1, 4}

\* --count when it is not given
DefaultCount == 5

\* --count of sequential
SeqCountArgs == {-2, 1, 2}

\* --count of random and topic-practice
CountArgs == {-1, 1}

CategoryArgs == {"", "signals", "weather"}

TopicArgs == {"traffic_signs", "parking"}

ScoreArgs == {89, 90}

TotalArgs == {100}

\* datetime.now(), formatted to the minute
Clock == {"2026-01-01 10:00"}

\* no invocation has run against the data directory yet
Fresh ==
    /\ progress_file = NoFile
    /\ last = Invocation("none", None, "none", 0, FALSE, None)
    /\ hist = [id \in CorpusIds |-> [checks |-> 0, correct |-> 0, last |-> "never"]]
    /\ ncmds = 0
    /\ running = EmptyDict

Init ==
    /\ data = PracticeData
    /\ Fresh

Next ==
    \/ \E id \in IdArgs, answer \in AnswerArgs : cmd_check(id, answer)
    \/ \E raw \in VtypeArgs, subject \in SubjectArgs, count \in SeqCountArgs :
          cmd_sequential(raw, subject, count, FALSE)
    \/ \E raw \in VtypeArgs, subject \in SubjectArgs :
          cmd_sequential(raw, subject, DefaultCount, TRUE)
    \/ \E qid \in FavoriteArgs : cmd_favorite(qid)
    \/ \E qid \in FavoriteArgs : cmd_unfavorite(qid)
    \/ \E raw \in VtypeArgs, subject \in SubjectArgs, score \in ScoreArgs,
          total \in TotalArgs, now \in Clock :
          cmd_record_exam(raw, subject, score, total, now)
    \/ \E raw \in VtypeArgs, subject \in SubjectArgs, count \in CountArgs,
          category \in CategoryArgs, exclude_done \in BOOLEAN :
          cmd_random(raw, subject, count, category, exclude_done)
    \/ \E raw \in VtypeArgs, subject \in SubjectArgs, topic \in TopicArgs, count \in CountArgs :
          cmd_topic_practice(raw, subject, topic, count)

Spec == Init /\ [][Next]_vars

(***************************************************************************)
(* The commands that select and report, run on the practice data after    *)
(* checks and favorites.                                                   *)
(***************************************************************************)
\* --count of hard: negative, smaller than the corpus, the default
HardCountArgs == {-1, 1, 10}

\* --count of top500: negative, smaller than the corpus, the default
Top500CountArgs == {-1, 1, DefaultCount}

\* --subject of wrong and favorites: not given (0), or 1
ReviewSubjectArgs == {0, 1}

\* --count of wrong and favorites: not given (0), 1, negative
ReviewCountArgs == {-1, 0, 1}

NextSelect ==
    \/ \E id \in IdArgs, answer \in AnswerArgs : cmd_check(id, answer)
    \/ \E qid \in FavoriteArgs : cmd_favorite(qid)
    \/ \E raw \in VtypeArgs, subject \in SubjectArgs, exclude_done \in BOOLEAN :
          cmd_random(raw, subject, 1, "", exclude_done)
    \/ \E raw \in VtypeArgs, subject \in SubjectArgs : cmd_exam(raw, subject)
    \/ \E raw \in VtypeArgs, subject \in SubjectArgs, topic \in TopicArgs :
          cmd_topic_practice(raw, subject, topic, 1)
    \/ \E subject \in ReviewSubjectArgs, count \in ReviewCountArgs : cmd_wrong(subject, count)
    \/ \E subject \in ReviewSubjectArgs, count \in ReviewCountArgs :
          cmd_favorites(subject, count)
    \/ \E raw \in VtypeArgs, subject \in SubjectArgs, count \in HardCountArgs :
          cmd_hard(raw, subject, count)
    \/ \E raw \in VtypeArgs, subject \in SubjectArgs, count \in Top500CountArgs :
          cmd_top500(raw, subject, count)
    \/ cmd_stats
    \/ \E raw \in VtypeArgs, subject \in SubjectArgs : cmd_categories(raw, subject)
    \/ \E raw \in VtypeArgs, subject \in SubjectArgs : cmd_topics(raw, subject)

SpecSelect == Init /\ [][NextSelect]_vars

(***************************************************************************)
(* hard, run after checks; the learner may have missed question 3 twice    *)
(* before the invocations explored.                                        *)
(***************************************************************************)
\* the checks made before the first invocation explored: none, or two misses of 3
PastChecks == { <<>>, << [id |-> 3, is_correct |-> FALSE], [id |-> 3, is_correct |-> FALSE] >> }

\* progress.json after the given checks, made one after the other from no file
RECURSIVE ProgressAfterChecks(_)
ProgressAfterChecks(past) ==
    IF past = <<>> THEN _default_progress
    ELSE LET c == past[Len(past)]
         IN  CHOOSE after \in
                 { ProgressAfterCheck(ensure_fields(before), find_question_by_id(c.id),
                                      c.is_correct) :
                      before \in {ProgressAfterChecks(SubSeq(past, 1, Len(past) - 1))} } : TRUE

RECURSIVE HistAfterChecks(_)
HistAfterChecks(past) ==
    IF past = <<>> THEN [id \in CorpusIds |-> [checks |-> 0, correct |-> 0, last |-> "never"]]
    ELSE LET c == past[Len(past)]
         IN  CHOOSE after \in
                 { HistAfterCheck(before, c.id, c.is_correct) :
                      before \in {HistAfterChecks(SubSeq(past, 1, Len(past) - 1))} } : TRUE

InitHard ==
    /\ data = PracticeData
    /\ \E past \in PastChecks :
          /\ progress_file = IF past = <<>> THEN NoFile ELSE ProgressAfterChecks(past)
          /\ hist = HistAfterChecks(past)
    /\ last = Invocation("none", None, "none", 0, FALSE, None)
    /\ ncmds = 0
    /\ running = EmptyDict

NextHard ==
    \/ \E id \in IdArgs, answer \in AnswerArgs : cmd_check(id, answer)
    \/ \E raw \in VtypeArgs, subject \in SubjectArgs, count \in HardCountArgs :
          cmd_hard(raw, subject, count)

SpecHard == InitHard /\ [][NextHard]_vars

(***************************************************************************)
(* check, given the synonym spellings of the judge answers.                *)
(***************************************************************************)
\* --answer: synonym spellings only, none of them a canonical answer
JudgeAnswerArgs ==
    { <<"zheng", "que">>, <<"cuo", "wu">>, <<"T", "r", "u", "e">>,
      <<" ", "f", "A", "L", "s", "e">>, <<"R", "i", "g", "h", "t">>,
      <<"w", "r", "o", "n", "g">> }

NextJudge ==
    \E id \in IdArgs, answer \in JudgeAnswerArgs : cmd_check(id, answer)

SpecJudge == Init /\ [][NextJudge]_vars

(***************************************************************************)
(* Every command, run on a progress.json that lacks one top-level field:   *)
(* the record an earlier version of the schema wrote after two misses of   *)
(* question 3.                                                             *)
(***************************************************************************)
\* a record without one of its fields
Without(record, field) == [k \in DOMAIN record \ {field} |-> record[k]]

\* the checks made before the record lost its field
LegacyChecks == << [id |-> 3, is_correct |-> FALSE], [id |-> 3, is_correct |-> FALSE] >>

InitLegacy ==
    /\ data = PracticeData
    /\ \E field \in DOMAIN _default_progress :
          progress_file = Without(ProgressAfterChecks(LegacyChecks), field)
    /\ hist = HistAfterChecks(LegacyChecks)
    /\ last = Invocation("none", None, "none", 0, FALSE, None)
    /\ ncmds = 0
    /\ running = EmptyDict

\* --vtype and --subject: the scope c1_subject1
LegacyVtypeArgs == { <<"c", "1">> }

LegacySubjectArgs == {1}

\* --id
LegacyIdArgs == {3}

\* --answer: the right and a wrong answer to question 3
LegacyAnswerArgs == { <<"cuo">>, <<"dui">> }

NextLegacy ==
    \/ \E id \in LegacyIdArgs, answer \in LegacyAnswerArgs : cmd_check(id, answer)
    \/ \E raw \in LegacyVtypeArgs, subject \in LegacySubjectArgs, reset \in BOOLEAN :
          cmd_sequential(raw, subject, DefaultCount, reset)
    \/ \E qid \in LegacyIdArgs : cmd_favorite(qid)
    \/ \E qid \in LegacyIdArgs : cmd_unfavorite(qid)
    \/ \E raw \in LegacyVtypeArgs, subject \in LegacySubjectArgs, score \in ScoreArgs,
          total \in TotalArgs, now \in Clock :
          cmd_record_exam(raw, subject, score, total, now)
    \/ \E raw \in LegacyVtypeArgs, subject \in LegacySubjectArgs :
          cmd_random(raw, subject, 1, "", TRUE)
    \/ \E raw \in LegacyVtypeArgs, subject \in LegacySubjectArgs : cmd_exam(raw, subject)
    \/ \E raw \in LegacyVtypeArgs, subject \in LegacySubjectArgs, topic \in TopicArgs :
          cmd_topic_practice(raw, subject, topic, 1)
    \/ cmd_wrong(0, 0)
    \/ cmd_favorites(0, 0)
    \/ \E raw \in LegacyVtypeArgs, subject \in LegacySubjectArgs : cmd_hard(raw, subject, 10)
    \/ \E raw \in LegacyVtypeArgs, subject \in LegacySubjectArgs : cmd_top500(raw, subject, 1)
    \/ cmd_stats
    \/ \E raw \in LegacyVtypeArgs, subject \in LegacySubjectArgs : cmd_categories(raw, subject)
    \/ \E raw \in LegacyVtypeArgs, subject \in LegacySubjectArgs : cmd_topics(raw, subject)

SpecLegacy == InitLegacy /\ [][NextLegacy]_vars

(***************************************************************************)
(* Overlapping invocations.  A mutating command loads progress.json,       *)
(* changes the record in memory and writes the whole record back; nothing  *)
(* locks the file, so another process can load or save in between.  Here   *)
(* an invocation is two steps: the load with the computation in memory,    *)
(* and the save with the printing of the payload.  Each process runs one   *)
(* invocation.                                                             *)
(***************************************************************************)
Procs == {1, 2}

\* save_progress with the cursors of the file kept when the record has none for them
save_progress_KeepCursors(file, progress) ==
    IF file = NoFile THEN progress
    ELSE [progress EXCEPT !.sequential_pos =
            [k \in DOMAIN @ \cup DOMAIN file.sequential_pos |->
                IF k \in DOMAIN @ THEN @[k] ELSE file.sequential_pos[k]]]

\* save_progress with the categories of the file kept when the record has none for them
save_progress_KeepCategories(file, progress) ==
    IF file = NoFile THEN progress
    ELSE [progress EXCEPT !.categories =
            [k \in DOMAIN @ \cup DOMAIN file.categories |->
                IF k \in DOMAIN @ THEN @[k] ELSE file.categories[k]]]

\* save_progress: progress.json after json.dump of the record, whatever the file held
save_progress(file, progress) == progress

\* An invocation in flight: the payload it will print, the content of progress.json it
\* loaded, the record it holds in memory, and the check it made (None when it is no check)
InFlight(inv, loaded, progress, check) ==
    [pc |-> "loaded", inv |-> inv, loaded |-> loaded, progress |-> progress,
     check |-> check, saved_at |-> 0]

\* cmd_check up to its call of save_progress
cmd_check_load(p, id, answer) ==
    /\ ncmds < MaxCmds
    /\ ncmds' = ncmds + 1
    /\ p \notin DOMAIN running
    /\ UNCHANGED <<progress_file, last, hist, data>>
    /\ LET q == find_question_by_id(id)
       IN  IF q = None
           THEN running' = Put(running, p,
                    InFlight(Invocation("check", [id |-> id], "QuestionNotFound", 0, FALSE, None),
                             NoFile, NoFile, None))
           ELSE IF CheckKeys(IsCorrect(q, answer)) \ DOMAIN ensure_fields(load_progress) # {}
           THEN running' = Put(running, p,
                    InFlight(Invocation("check", [id |-> id], "KeyError", 1, FALSE, None),
                             progress_file, NoFile, None))
           ELSE LET is_correct == IsCorrect(q, answer)
                    progress == ProgressAfterCheck(ensure_fields(load_progress), q, is_correct)
                    qs == progress.question_stats[Str(q.id)]
                IN  running' = Put(running, p,
                        InFlight(Invocation("check", [id |-> id], "none", 0, TRUE,
                                     [question_id |-> q.id,
                                      correct |-> is_correct,
                                      correct_answer |-> q.answer,
                                      category |-> q.category,
                                      topics |-> get_question_topics(q),
                                      errors |-> qs.attempts - qs.correct,
                                      attempts |-> qs.attempts]),
                                 progress_file, progress, [id |-> q.id, is_correct |-> is_correct]))

\* cmd_sequential without --reset, up to its call of save_progress
cmd_sequential_load(p, raw, subject, count) ==
    /\ ncmds < MaxCmds
    /\ ncmds' = ncmds + 1
    /\ p \notin DOMAIN running
    /\ UNCHANGED <<progress_file, last, hist, data>>
    /\ LET vtype == resolve_vtype(raw)
       IN  IF vtype = NoVtype
           THEN running' = Put(running, p,
                    InFlight(Invocation("sequential", None, "InvalidVehicleClass", 1, FALSE, None),
                             NoFile, NoFile, None))
           ELSE IF ~FileExists(PosKey(vtype, subject))
           THEN running' = Put(running, p,
                    InFlight(Invocation("sequential", None, "CorpusNotFound", 1, FALSE,
                                        [file |-> PosKey(vtype, subject)]),
                             NoFile, NoFile, None))
           ELSE
           LET questions == load_questions(subject, vtype)
               progress == ensure_fields(load_progress)
               pos_key == PosKey(vtype, subject)
               args == [vtype |-> vtype, subject |-> subject, count |-> count, reset |-> FALSE]
               current_pos == Get(progress.sequential_pos, pos_key, 0)
               total == Len(questions)
               end_pos == EndPos(current_pos, count, total)
               selected == PySlice(questions, current_pos, end_pos)
           IN  IF current_pos >= total
               THEN running' = Put(running, p,
                        InFlight(Invocation("sequential", args, "none", 0, FALSE,
                                     [message |-> "completed", position |-> current_pos,
                                      total |-> total, questions |-> <<>>]),
                                 progress_file, NoFile, None))
               ELSE running' = Put(running, p,
                        InFlight(IF total = 0
                                 THEN Invocation("sequential", args, "Traceback", 1, TRUE, None)
                                 ELSE Invocation("sequential", args, "none", 0, TRUE,
                                          [message |-> "questions",
                                           position |-> current_pos + 1,
                                           end_position |-> end_pos,
                                           total |-> total,
                                           remaining |-> total - end_pos,
                                           count |-> Len(selected),
                                           questions |-> Ids(selected)]),
                                 progress_file, SetCursor(progress, pos_key, end_pos), None))

\* the rest of the command: save_progress when the command saves, output_json, exit
save_and_exit(p) ==
    /\ p \in DOMAIN running
    /\ running[p].pc = "loaded"
    /\ progress_file' = IF running[p].inv.saved
                        THEN save_progress(progress_file, running[p].progress)
                        ELSE progress_file
    /\ last' = running[p].inv
    /\ hist' = IF running[p].check # None /\ running[p].inv.saved
               THEN HistAfterCheck(hist, running[p].check.id, running[p].check.is_correct)
               ELSE hist
    /\ running' = [running EXCEPT
                      ![p].pc = "done",
                      ![p].saved_at =
                          1 + Cardinality({ q \in DOMAIN running : running[q].pc = "done" })]
    /\ UNCHANGED <<ncmds, data>>

\* --count of sequential in the overlapping invocations
RaceCountArgs == {1, 2}

NextRace ==
    \/ \E p \in Procs, id \in IdArgs, answer \in AnswerArgs : cmd_check_load(p, id, answer)
    \/ \E p \in Procs, raw \in VtypeArgs, subject \in SubjectArgs, count \in RaceCountArgs :
          cmd_sequential_load(p, raw, subject, count)
    \/ \E p \in Procs : save_and_exit(p)

SpecRace == Init /\ [][NextRace]_vars

(***************************************************************************)
(* Three overlapping invocations, so that an invocation can load what      *)
(* another saved while a third still holds the record it loaded earlier.   *)
(***************************************************************************)
OverlapProcs == {1, 2, 3}

NextOverlap ==
    \/ \E p \in OverlapProcs, id \in {1, 3}, answer \in LegacyAnswerArgs :
          cmd_check_load(p, id, answer)
    \/ \E p \in OverlapProcs, raw \in LegacyVtypeArgs, subject \in LegacySubjectArgs,
          count \in RaceCountArgs :
          cmd_sequential_load(p, raw, subject, count)
    \/ \E p \in OverlapProcs : save_and_exit(p)

SpecOverlap == Init /\ [][NextOverlap]_vars

(***************************************************************************)
(* sequential invoked again and again, without --reset and with a count of *)
(* at least 1, on a data directory of one file.  The file is short enough  *)
(* for the invocations explored to reach its end and go on.                *)
(***************************************************************************)
\* a data directory whose only file has n questions
DrillData(vtype, subject, n) ==
    ( PosKey(vtype, subject) :>
        [k \in 1..n |-> Q(k, subject, <<"k">> \o Str(k % 2), "judge", <<"dui">>, <<>>)] )

InitDrill ==
    /\ data \in { DrillData(vtype, subject, n) :
                     vtype \in {"c1", "a1"}, subject \in {1, 4}, n \in 1..(MaxCmds - 1) }
    /\ \E past \in { <<>>, << [id |-> 1, is_correct |-> FALSE] >> } :
          /\ progress_file = IF past = <<>> THEN NoFile ELSE ProgressAfterChecks(past)
          /\ hist = HistAfterChecks(past)
    /\ last = Invocation("none", None, "none", 0, FALSE, None)
    /\ ncmds = 0
    /\ running = EmptyDict

\* sequential for the file there is
NextDrill ==
    \E raw \in { <<" ", "C", "2">>, <<"b", "1">> }, subject \in SubjectArgs, count \in RaceCountArgs \cup {DefaultCount} :
       /\ FileExists(PosKey(resolve_vtype(raw), subject))
       /\ cmd_sequential(raw, subject, count, FALSE)

\* the learner keeps invoking sequential
SpecDrill == InitDrill /\ [][NextDrill]_vars /\ WF_vars(NextDrill)

(***************************************************************************)
(* record-exam and stats on a progress.json that may already hold the      *)
(* records of five earlier exams, so that stats has more than five to      *)
(* choose from.                                                            *)
(***************************************************************************)
\* mock_exams after n invocations of record-exam for c1, subject 1, with rising scores
PastExams(n) ==
    [k \in 1..n |->
        [date |-> "2025-12-31 09:00", vehicle_type |-> "c1", subject |-> 1,
         score |-> 84 + k, total |-> 100, passed |-> 84 + k >= PassScore]]

InitExam ==
    /\ data = PracticeData
    /\ \E n \in {0, 5} :
          progress_file = IF n = 0 THEN NoFile
                          ELSE [_default_progress EXCEPT !.mock_exams = PastExams(n)]
    /\ last = Invocation("none", None, "none", 0, FALSE, None)
    /\ hist = [id \in CorpusIds |-> [checks |-> 0, correct |-> 0, last |-> "never"]]
    /\ ncmds = 0
    /\ running = EmptyDict

NextExam ==
    \/ \E raw \in LegacyVtypeArgs \cup { <<"x">> }, subject \in SubjectArgs, score \in ScoreArgs,
          total \in TotalArgs, now \in {"2026-01-01 10:00", "2026-01-02 10:00"} :
          cmd_record_exam(raw, subject, score, total, now)
    \/ cmd_stats
    \/ \E id \in LegacyIdArgs, answer \in LegacyAnswerArgs : cmd_check(id, answer)
    \/ \E raw \in LegacyVtypeArgs \cup { <<"x">> }, subject \in LegacySubjectArgs, count \in RaceCountArgs :
          cmd_sequential(raw, subject, count, FALSE)
    \/ \E raw \in LegacyVtypeArgs \cup { <<"x">> }, subject \in LegacySubjectArgs :
          cmd_sequential(raw, subject, DefaultCount, TRUE)
    \/ \E qid \in LegacyIdArgs : cmd_favorite(qid)
    \/ \E qid \in LegacyIdArgs : cmd_unfavorite(qid)

SpecExam == InitExam /\ [][NextExam]_vars

(***************************************************************************)
(* stats after many checks: a category is weak only once it was answered   *)
(* five times, so the invocations explored follow a history of checks.     *)
(***************************************************************************)
\* n checks of the question of the given id, all with the same verdict
Repeat(id, is_correct, n) == [k \in 1..n |-> [id |-> id, is_correct |-> is_correct]]

\* the checks made before the first invocation explored: none; question 1 (signals)
\* right 5 times of 7, then question 3 (rules) right 12 times of 17; the same with
\* question 3 right 11 times of 17
WeakPastChecks ==
    { <<>>,
      Repeat(1, TRUE, 5) \o Repeat(1, FALSE, 2) \o Repeat(3, TRUE, 12) \o Repeat(3, FALSE, 5),
      Repeat(1, TRUE, 5) \o Repeat(1, FALSE, 2) \o Repeat(3, TRUE, 11) \o Repeat(3, FALSE, 6) }

InitWeak ==
    /\ data = PracticeData
    /\ \E past \in WeakPastChecks :
          /\ progress_file = IF past = <<>> THEN NoFile ELSE ProgressAfterChecks(past)
          /\ hist = HistAfterChecks(past)
    /\ last = Invocation("none", None, "none", 0, FALSE, None)
    /\ ncmds = 0
    /\ running = EmptyDict

NextWeak ==
    \/ \E id \in IdArgs, answer \in AnswerArgs : cmd_check(id, answer)
    \/ cmd_stats

SpecWeak == InitWeak /\ [][NextWeak]_vars

(***************************************************************************)
(* top500 on corpora of many categories.  target is 500, so the cut to     *)
(* target and the per-category quota of 1 need corpora of hundreds of      *)
(* questions; each category but one holds a single question, which leaves  *)
(* random.sample one outcome per category.                                 *)
(***************************************************************************)
\* Number of categories of the corpus a1_subject1: one question each.
WideCategories == 501

\* Number of categories of the corpus a1_subject4: the first holds two questions,
\* each other one question.
UnevenCategories == 252

CategoryName(n) == <<"k">> \o Str(n)

BreadthData ==
    ( PosKey("a1", 1) :>
        [n \in 1..WideCategories |->
            Q(1000 + n, 1, CategoryName(n), "single", <<"A">>, <<>>)]
      @@
      PosKey("a1", 4) :>
        [n \in 1..(UnevenCategories + 1) |->
            Q(2000 + n, 4, CategoryName(Max(1, n - 1)), "single", <<"A">>, <<>>)] )

\* --id: the first question of a1_subject1, a question of the two-question category
\* and a question that is alone in its category
BreadthIdArgs == {1001, 2001, 2003}

BreadthAnswerArgs == { <<"a">>, <<"b">> }

\* --vtype: an alias of a1
BreadthVtypeArgs == { <<"B", "1">> }

\* --count 0: the batch is empty, whatever the shuffle did
BreadthCountArgs == {0}

InitBreadth ==
    /\ data = BreadthData
    /\ Fresh

NextBreadth ==
    \/ \E id \in BreadthIdArgs, answer \in BreadthAnswerArgs : cmd_check(id, answer)
    \/ \E raw \in BreadthVtypeArgs, subject \in SubjectArgs, count \in BreadthCountArgs :
          cmd_top500(raw, subject, count)

SpecBreadth == InitBreadth /\ [][NextBreadth]_vars

(***************************************************************************)
(* top500 with batches.  A batch of one from a list of 500 already has 500 *)
(* outcomes, so the wide files are asked for the empty batch and a third,  *)
(* short file for batches of every size.                                   *)
(***************************************************************************)
CurateData ==
    BreadthData @@
    ( PosKey("d", 1) :>
        << Q(3001, 1, CategoryName(1), "single", <<"A">>, <<>>),
           Q(3002, 1, CategoryName(1), "single", <<"A">>, <<>>),
           Q(3003, 1, CategoryName(2), "single", <<"A">>, <<>>) >> )

\* --id: the first question of a1_subject1, a question alone in its category in
\* a1_subject4, a question of the short file
NextCurate ==
    \/ \E id \in {1001, 2003, 3001}, answer \in BreadthAnswerArgs : cmd_check(id, answer)
    \/ \E raw \in BreadthVtypeArgs, subject \in SubjectArgs, count \in BreadthCountArgs :
          cmd_top500(raw, subject, count)
    \/ \E subject \in LegacySubjectArgs, count \in Top500CountArgs \cup BreadthCountArgs :
          cmd_top500(<<"d">>, subject, count)

InitCurate ==
    /\ data = CurateData
    /\ Fresh

SpecCurate == InitCurate /\ [][NextCurate]_vars

(***************************************************************************)
(* import_questions.py and validate_questions.py.  One invocation of the   *)
(* importer fetches one subject of one vehicle type and writes its data    *)
(* file; the remote question bank is the same at every invocation.  A page *)
(* other than the first is skipped when its three attempts fail; when the  *)
(* first fetch fails the importer dies before it writes anything.          *)
(***************************************************************************)
PAGE_SIZE == 100

\* "total" of the remote question bank
RemoteTotal == 201

VEHICLE_TYPE_ID_BASE ==
    ( <<"C", "1">> :> 0 @@ <<"A", "1">> :> 100000 @@ <<"A", "2">> :> 200000 @@
      <<"D">> :> 300000 )

VALID_TYPES == {"single", "judge", "multi"}

\* the n-th question of the remote bank: one in three has no options, one in three an
\* answer of several letters
RawQuestion(n) ==
    [chapter |-> CategoryName(n % 2),
     question |-> <<"q">> \o Str(n),
     answer |-> IF n % 3 = 0 THEN <<"dui">> ELSE IF n % 3 = 1 THEN <<"A">> ELSE <<"A", ",", "B">>,
     options |-> IF n % 3 = 0 THEN <<>> ELSE <<"o1", "o2">>]

\* total_pages of fetch_subject
TotalPages == (RemoteTotal + PAGE_SIZE - 1) \div PAGE_SIZE

\* result["list"] of a page that was fetched
PageList(page) ==
    [k \in 1..Min(PAGE_SIZE, RemoteTotal - (page - 1) * PAGE_SIZE) |->
        RawQuestion((page - 1) * PAGE_SIZE + k)]

\* normalize_question numbering each page from 1
normalize_question_PerPage(raw, subject, idx, vehicle_type) ==
    Q(Get(VEHICLE_TYPE_ID_BASE, vehicle_type, 0) + subject * 10000
          + ((idx - 1) % PAGE_SIZE) + 1,
      subject, raw.chapter,
      IF raw.options = <<>> THEN "judge"
      ELSE IF Contains(raw.answer, ",") THEN "multi" ELSE "single",
      raw.answer, raw.question)
    @@ ("options" :> raw.options)

normalize_question(raw, subject, idx, vehicle_type) ==
    Q(Get(VEHICLE_TYPE_ID_BASE, vehicle_type, 0) + subject * 10000 + idx,
      subject, raw.chapter,
      IF raw.options = <<>> THEN "judge"
      ELSE IF Contains(raw.answer, ",") THEN "multi" ELSE "single",
      raw.answer, raw.question)
    @@ ("options" :> raw.options)

\* the raw questions of the pages from `page` on that were fetched, in page order
RECURSIVE FetchedFrom(_, _)
FetchedFrom(page, fetched) ==
    IF page > TotalPages THEN <<>>
    ELSE (IF page \in fetched THEN PageList(page) ELSE <<>>) \o FetchedFrom(page + 1, fetched)

\* all_questions of fetch_subject: idx counts the questions appended so far
fetch_subject(subject, vehicle_type, fetched) ==
    LET raws == FetchedFrom(1, fetched)
    IN  [idx \in 1..Len(raws) |-> normalize_question(raws[idx], subject, idx, vehicle_type)]

\* vehicle_type.lower() in the name of the data file
LowerTypeName == ( <<"c", "1">> :> "c1" @@ <<"a", "1">> :> "a1" )

\* main of import_questions.py for one --type and one --subject; fetched is the set of
\* pages whose fetch succeeded within its attempts
import_subject(vehicle_type, subject, fetched) ==
    /\ ncmds < MaxCmds
    /\ ncmds' = ncmds + 1
    /\ UNCHANGED <<progress_file, hist, running>>
    /\ LET args == [type |-> vehicle_type, subject |-> subject]
           key == PosKey(LowerTypeName[Lower(vehicle_type)], subject)
       IN  IF 1 \notin fetched
           THEN /\ last' = Invocation("import", args, "Traceback", 1, FALSE, None)
                /\ UNCHANGED data
           ELSE LET questions == fetch_subject(subject, vehicle_type, fetched)
                IN  IF questions = <<>>
                    THEN /\ last' = Invocation("import", args, "none", 0, FALSE,
                                        [file |-> key, written |-> FALSE, total |-> 0])
                         /\ UNCHANGED data
                    ELSE /\ data' = Put(data, key, questions)
                         /\ last' = Invocation("import", args, "none", 0, FALSE,
                                        [file |-> key, written |-> TRUE,
                                         total |-> Len(questions)])

\* validate_file: whether the file has no error
validate_file(questions) ==
    \A i \in 1..Len(questions) :
       LET q == questions[i]
       IN  /\ ~\E j \in 1..(i - 1) : questions[j].id = q.id
           /\ q.type \in VALID_TYPES
           /\ (q.type \in {"single", "multi"} => Get(q, "options", <<>>) # <<>>)
           /\ Strip(q.text) # <<>>
           /\ Strip(q.answer) # <<>>

\* main of validate_questions.py without arguments: every data file there is
validate_questions ==
    /\ ncmds < MaxCmds
    /\ ncmds' = ncmds + 1
    /\ UNCHANGED <<progress_file, hist, running, data>>
    /\ LET failing == { key \in DOMAIN data : ~validate_file(data[key]) }
       IN  IF DOMAIN data = {}
           THEN last' = Invocation("validate", None, "NoCorpus", 1, FALSE, None)
           ELSE IF failing = {}
           THEN last' = Invocation("validate", None, "none", 0, FALSE, [failing |-> failing])
           ELSE last' = Invocation("validate", None, "ValidationFailed", 1, FALSE,
                                   [failing |-> failing])

\* a data file edited by hand, in which an id is repeated
EditedData ==
    ( PosKey("d", 1) :>
        << Q(7, 1, CategoryName(0), "single", <<"A">>, <<"q", "7">>) @@ ("options" :> <<"o1", "o2">>),
           Q(8, 1, CategoryName(0), "judge", <<"dui">>, <<"q", "8">>) @@ ("options" :> <<>>),
           Q(7, 1, CategoryName(1), "judge", <<"cuo">>, <<"q", "9">>) @@ ("options" :> <<>>) >> )

\* the data directory is empty, or holds the edited file
InitImport ==
    /\ data \in {EmptyDict, EditedData}
    /\ progress_file = NoFile
    /\ last = Invocation("none", None, "none", 0, FALSE, None)
    /\ hist = EmptyDict
    /\ ncmds = 0
    /\ running = EmptyDict

\* --type of import_questions.py
ImportTypeArgs == { <<"C", "1">>, <<"A", "1">>, <<"a", "1">> }

NextImport ==
    \/ \E vehicle_type \in ImportTypeArgs, subject \in LegacySubjectArgs,
          fetched \in SUBSET (1..TotalPages) :
          import_subject(vehicle_type, subject, fetched)
    \/ validate_questions

SpecImport == InitImport /\ [][NextImport]_vars

(***************************************************************************)
(* fetch_subject attempt by attempt.  One importer runs at a time; every   *)
(* call of fetch_page either returns the page or raises.  The first page   *)
(* is fetched once, outside the retry loop; every later page is tried in   *)
(* the loop over range(3).                                                 *)
(***************************************************************************)
\* range(3) with one attempt more
Attempts_Four == 0..3

\* range(3) of the retry loop
Attempts == 0..2

\* the questions of a page appended to all_questions, idx counting on
Appended(f, page) ==
    LET page_list == PageList(page)
    IN  [f EXCEPT
           !.all_questions = @ \o
               [k \in 1..Len(page_list) |->
                   normalize_question(page_list[k], f.subject, f.idx + k - 1, f.vehicle_type)],
           !.idx = @ + Len(page_list),
           !.got = @ \cup {page}]

\* main calling fetch_subject, up to the end of the first pass of the loop: the first
\* fetch_page is outside any try, so the importer dies when it raises
fetch_first(vehicle_type, subject, ok) ==
    /\ ncmds < MaxCmds
    /\ ncmds' = ncmds + 1
    /\ (1 \in DOMAIN running => running[1].pc # "fetching")
    /\ UNCHANGED <<progress_file, hist, data>>
    /\ LET args == [type |-> vehicle_type, subject |-> subject]
           f == [pc |-> "fetching", vehicle_type |-> vehicle_type, subject |-> subject,
                 page |-> 2, attempt |-> 0, all_questions |-> <<>>, idx |-> 1,
                 got |-> {}, tries |-> [p \in 1..TotalPages |-> IF p = 1 THEN 1 ELSE 0]]
       IN  IF ~ok
           THEN /\ last' = Invocation("import", args, "Traceback", 1, FALSE, None)
                /\ running' = Put(running, 1, [f EXCEPT !.pc = "died"])
           ELSE /\ last' = Invocation("import", args, "none", 0, FALSE, None)
                /\ running' = Put(running, 1, Appended(f, 1))

\* one pass of `for attempt in range(3)` for the page at hand: the page is appended when
\* fetch_page returns, tried again when it raises before the last attempt, and left out when
\* it raises at the last one
fetch_retry(ok) ==
    /\ 1 \in DOMAIN running
    /\ running[1].pc = "fetching"
    /\ running[1].page <= TotalPages
    /\ UNCHANGED <<progress_file, hist, data, ncmds, last>>
    /\ LET f == [running[1] EXCEPT !.tries[running[1].page] = @ + 1]
       IN  IF ok
           THEN running' = Put(running, 1,
                               [Appended(f, f.page) EXCEPT !.page = @ + 1, !.attempt = 0])
           ELSE IF f.attempt + 1 \in Attempts
           THEN running' = Put(running, 1, [f EXCEPT !.attempt = @ + 1])
           ELSE running' = Put(running, 1, [f EXCEPT !.page = @ + 1, !.attempt = 0])

\* fetch_subject returning all_questions after the last page, and main saving them
fetch_return ==
    /\ 1 \in DOMAIN running
    /\ running[1].pc = "fetching"
    /\ running[1].page > TotalPages
    /\ UNCHANGED <<progress_file, hist, ncmds>>
    /\ LET f == running[1]
           key == PosKey(LowerTypeName[Lower(f.vehicle_type)], f.subject)
       IN  /\ running' = Put(running, 1, [f EXCEPT !.pc = "returned"])
           /\ IF f.all_questions = <<>>
              THEN /\ last' = [last EXCEPT !.out = [file |-> key, written |-> FALSE, total |-> 0]]
                   /\ UNCHANGED data
              ELSE /\ data' = Put(data, key, f.all_questions)
                   /\ last' = [last EXCEPT !.out = [file |-> key, written |-> TRUE,
                                                    total |-> Len(f.all_questions)]]

NextFetch ==
    \/ \E vehicle_type \in ImportTypeArgs, subject \in LegacySubjectArgs, ok \in BOOLEAN :
          fetch_first(vehicle_type, subject, ok)
    \/ \E ok \in BOOLEAN : fetch_retry(ok)
    \/ fetch_return

\* an importer that started goes on until it returns or dies
SpecFetch ==
    /\ InitImport
    /\ [][NextFetch]_vars
    /\ WF_vars(\E ok \in BOOLEAN : fetch_retry(ok))
    /\ WF_vars(fetch_return)

(***************************************************************************)
(* Properties.                                                             *)
(***************************************************************************)
\* the number of occurrences of x in a list
Occurrences(list, x) == Cardinality({ k \in 1..Len(list) : list[k] = x })

\* the statistics entry of an id, all zero when it has none
StatsOf(progress, id) ==
    Get(progress.question_stats, Str(id), [attempts |-> 0, correct |-> 0])

\* the correct-count of a category, zero when the category has no entry
CategoryCorrect(progress, cat) ==
    IF cat \in DOMAIN progress.categories THEN progress.categories[cat].correct ELSE 0

\* the last invocation was a check of a question that exists
CheckedNow(inv) == inv.cmd = "check" /\ inv.error = "none"

\* C1: an id is in wrong_questions exactly when the most recent check of that id
\* was judged incorrect; an id never checked is not in it.
C1_WrongIffLastCheckWrong ==
    LET wrong == load_progress.wrong_questions
    IN  /\ \A id \in CorpusIds : Contains(wrong, id) <=> hist[id].last = "wrong"
        /\ \A k \in 1..Len(wrong) : wrong[k] \in CorpusIds

\* one id was missed and then answered correctly, another id's last check was a miss
C1_Witness ==
    /\ \E id \in CorpusIds :
          /\ hist[id].last = "right"
          /\ hist[id].checks > hist[id].correct
          /\ ~Contains(load_progress.wrong_questions, id)
    /\ \E id \in CorpusIds :
          hist[id].last = "wrong" /\ Contains(load_progress.wrong_questions, id)

\* C2: wrong_questions holds no id twice: an id whose last check was a miss occurs
\* exactly once however many misses there were, an id whose last check was correct
\* does not occur.
C2_WrongHasNoDuplicates ==
    LET wrong == load_progress.wrong_questions
    IN  \A id \in CorpusIds :
           /\ Occurrences(wrong, id) <= 1
           /\ hist[id].last = "wrong" => Occurrences(wrong, id) = 1
           /\ hist[id].last = "right" => Occurrences(wrong, id) = 0

\* an id answered correctly once and missed twice, the last time a miss
C2_Witness ==
    \E id \in CorpusIds :
       /\ hist[id].correct = 1
       /\ hist[id].checks - hist[id].correct >= 2
       /\ hist[id].last = "wrong"
       /\ Occurrences(load_progress.wrong_questions, id) = 1

\* C3: every correct check raises total_correct by exactly 1 and the correct-count of
\* the question's category by exactly 1, and leaves the id out of wrong_questions.
C3_CorrectCheckCounts ==
    [][ (CheckedNow(last') /\ last'.out.correct) =>
          /\ load_progress'.total_correct = load_progress.total_correct + 1
          /\ CategoryCorrect(load_progress', last'.out.category)
                = CategoryCorrect(load_progress, last'.out.category) + 1
          /\ ~Contains(load_progress'.wrong_questions, last'.out.question_id) ]_vars

\* the last invocation was the second correct check of the same id
C3_Witness ==
    /\ CheckedNow(last)
    /\ last.out.correct
    /\ hist[last.out.question_id].correct >= 2

\* C4: question_stats[id].attempts is the number of checks of the id and
\* question_stats[id].correct the number of those judged correct; correct <= attempts;
\* no invocation lowers either value.
C4_StatsCountChecks ==
    /\ [](\A id \in CorpusIds :
            /\ StatsOf(load_progress, id).attempts = hist[id].checks
            /\ StatsOf(load_progress, id).correct = hist[id].correct
            /\ StatsOf(load_progress, id).correct <= StatsOf(load_progress, id).attempts)
    /\ [](DOMAIN load_progress.question_stats \subseteq { Str(id) : id \in CorpusIds })
    /\ [][ \A id \in CorpusIds :
            /\ StatsOf(load_progress', id).attempts >= StatsOf(load_progress, id).attempts
            /\ StatsOf(load_progress', id).correct >= StatsOf(load_progress, id).correct ]_vars

\* an id checked at least twice, once correctly, after which another command ran
C4_Witness ==
    /\ last.cmd # "check"
    /\ \E id \in CorpusIds :
          /\ hist[id].checks >= 2
          /\ hist[id].correct = 1
          /\ StatsOf(load_progress, id) = [attempts |-> hist[id].checks, correct |-> 1]

\* C5: no invocation lowers total_answered or total_correct; they change only in a
\* check of a question that exists, which raises total_answered by 1 and total_correct
\* by 1 or 0.
C5_TotalsMonotone ==
    [][ /\ load_progress'.total_answered >= load_progress.total_answered
        /\ load_progress'.total_correct >= load_progress.total_correct
        /\ IF CheckedNow(last')
           THEN /\ load_progress'.total_answered = load_progress.total_answered + 1
                /\ load_progress'.total_correct - load_progress.total_correct \in {0, 1}
           ELSE /\ load_progress'.total_answered = load_progress.total_answered
                /\ load_progress'.total_correct = load_progress.total_correct ]_vars

\* two checks, one of them correct, and then a command that is no check
C5_Witness ==
    /\ last.cmd \in {"sequential", "favorite", "unfavorite", "record-exam", "random"}
    /\ load_progress.total_answered = 2
    /\ load_progress.total_correct = 1

\* C6: a check or a favorite of an id that no data file holds answers with the
\* QuestionNotFound payload, does not call save_progress and leaves progress.json as
\* it was.
C6_UnknownIdChangesNothing ==
    [][ (last'.cmd \in {"check", "favorite"} /\ last'.args.id \notin CorpusIds) =>
          /\ last'.error = "QuestionNotFound"
          /\ ~last'.saved
          /\ progress_file' = progress_file ]_vars

\* a favorite of an unknown id, run when progress.json holds answers and favorites
C6_Witness ==
    /\ last.cmd = "favorite"
    /\ last.error = "QuestionNotFound"
    /\ progress_file # NoFile
    /\ progress_file.total_answered > 0
    /\ progress_file.favorites # <<>>

\* the error kinds of the commands
ErrorKinds ==
    {"CorpusNotFound", "QuestionNotFound", "UnknownTopic", "UnknownCategory",
     "InvalidVehicleClass"}

\* C7: an invocation that prints an error payload of any of the five kinds ends with
\* a non-zero exit status.
C7_ErrorsExitNonZero == last.error \in ErrorKinds => last.exit # 0

\* the cursor of a scope, 0 when the scope has none
CursorOf(progress, vtype, subject) == Get(progress.sequential_pos, PosKey(vtype, subject), 0)

\* the ids of questions lo .. hi-1 (0-based) of a corpus, none when hi <= lo
IdsBetween(questions, lo, hi) ==
    [k \in 1..(IF hi > lo THEN hi - lo ELSE 0) |-> questions[lo + k].id]

\* C8: a sequential call without reset that starts at cursor c below the length of
\* the corpus, with count n, returns questions c .. min(c+n, total)-1, reports
\* position c+1 and end_position min(c+n, total), and saves the cursor min(c+n, total).
C8_SequentialSlices ==
    [][ (/\ last'.cmd = "sequential"
         /\ last'.error = "none"
         /\ ~last'.args.reset
         /\ last'.out.message = "questions") =>
          LET a == last'.args
              questions == load_questions(a.subject, a.vtype)
              total == Len(questions)
              c == CursorOf(load_progress, a.vtype, a.subject)
              e == IF c + a.count <= total THEN c + a.count ELSE total
          IN  /\ c >= 0
              /\ last'.out.questions = IdsBetween(questions, c, e)
              /\ last'.out.position = c + 1
              /\ last'.out.end_position = e
              /\ CursorOf(load_progress', a.vtype, a.subject) = e ]_vars

\* C9: the saved cursor of a scope never exceeds the length of that scope's corpus.
C9_CursorWithinCorpus ==
    \A key \in DOMAIN load_progress.sequential_pos :
       /\ FileExists(key)
       /\ load_progress.sequential_pos[key] <= Len(DataFiles[key])

\* a call whose count reaches past the end of the corpus left the cursor at the end
C9_Witness ==
    /\ last.cmd = "sequential"
    /\ last.error = "none"
    /\ ~last.args.reset
    /\ last.out.message = "questions"
    /\ last.out.position - 1 + last.args.count > last.out.total
    /\ CursorOf(load_progress, last.args.vtype, last.args.subject) = last.out.total

\* C10: a reset sets the cursor of its scope to 0, saves the record, returns no
\* question, and leaves the cursors of the other scopes and every other field alone.
C10_ResetFrame ==
    [][ (last'.cmd = "sequential" /\ last'.error = "none" /\ last'.args.reset) =>
          LET key == PosKey(last'.args.vtype, last'.args.subject)
              before == load_progress.sequential_pos
              after == load_progress'.sequential_pos
          IN  /\ last'.saved
              /\ progress_file' # NoFile
              /\ last'.out.questions = <<>>
              /\ after[key] = 0
              /\ DOMAIN after = DOMAIN before \cup {key}
              /\ \A k \in DOMAIN before \ {key} : after[k] = before[k]
              /\ [load_progress' EXCEPT !.sequential_pos = before] = load_progress ]_vars

\* a reset of one scope while the other scope's cursor is advanced
C10_Witness ==
    /\ last.cmd = "sequential"
    /\ last.error = "none"
    /\ last.args.reset
    /\ \E key \in DOMAIN load_progress.sequential_pos :
          /\ key # PosKey(last.args.vtype, last.args.subject)
          /\ load_progress.sequential_pos[key] > 0

\* C11: after any sequence of checks, a random call with exclude-done returns no
\* question whose id is in the answered_ids of any category, that is, no question
\* that was ever checked.
C11_ExcludeDoneSkipsAnswered ==
    (last.cmd = "random" /\ last.error = "none" /\ last.args.exclude_done) =>
       \A k \in 1..Len(last.out.questions) :
          /\ hist[last.out.questions[k]].checks = 0
          /\ \A c \in DOMAIN load_progress.categories :
                ~Contains(load_progress.categories[c].answered_ids, last.out.questions[k])

\* a random call with exclude-done over a whole corpus of which a question answered
\* correctly and a question answered wrongly were left out, and one was returned
C11_Witness ==
    /\ last.cmd = "random"
    /\ last.error = "none"
    /\ last.args.exclude_done
    /\ last.args.category = ""
    /\ last.out.questions # <<>>
    /\ last.out.total_available = Len(load_questions(last.args.subject, last.args.vtype)) - 2
    /\ load_progress.total_correct = 1
    /\ Len(load_progress.wrong_questions) = 1

\* the last invocation was a top500 that printed its payload
CuratedNow == last.cmd = "top500" /\ last.error = "none"

\* the corpus the last invocation ran on
LastCorpus == load_questions(last.args.subject, last.args.vtype)

\* the questions of a corpus that are currently wrong
WrongOf(questions) ==
    LET IsWrong(q) == Contains(load_progress.wrong_questions, q.id)
    IN  SelectSeq(questions, IsWrong)

\* the questions of a corpus that were never checked
NeverAttemptedOf(questions) ==
    LET IsNew(q) == hist[q.id].checks = 0
    IN  SelectSeq(questions, IsNew)

\* C12: on a corpus of N questions of which some are currently wrong and all others
\* never attempted, spread over several categories, the curated list of top500 holds
\* exactly min(500, N) questions, whatever the sizes of the categories.
C12_CuratedSizeIsMin ==
    (/\ CuratedNow
     /\ WrongOf(LastCorpus) # <<>>
     /\ Len(WrongOf(LastCorpus)) + Len(NeverAttemptedOf(LastCorpus)) = Len(LastCorpus)
     /\ Cardinality({ q.category : q \in Elems(NeverAttemptedOf(LastCorpus)) }) >= 2) =>
       last.out.total_selected = Min(target, Len(LastCorpus))

\* C13: when at most 500 questions of the corpus are currently wrong, the curated
\* list of top500 holds every question of the corpus whose id is in wrong_questions.
C13_WrongAllCurated ==
    (CuratedNow /\ Len(WrongOf(LastCorpus)) <= target) =>
       \A q \in Elems(WrongOf(LastCorpus)) : Contains(last.out.selected, q.id)

\* a top500 on a corpus of more than 500 questions, one of them wrong, whose list was
\* cut to 500 and kept the wrong question
C13_Witness ==
    /\ CuratedNow
    /\ Len(LastCorpus) > target
    /\ last.out.total_selected = target
    /\ WrongOf(LastCorpus) # <<>>
    /\ Contains(last.out.selected, WrongOf(LastCorpus)[1].id)

\* C14: when fewer than 500 questions are currently wrong, every category with a
\* never-attempted question has a never-attempted question of its own in the curated
\* list of top500, for any number of categories.
C14_EveryCategoryContributes ==
    (CuratedNow /\ Len(WrongOf(LastCorpus)) < target) =>
       \A q \in Elems(NeverAttemptedOf(LastCorpus)) :
          \E r \in Elems(NeverAttemptedOf(LastCorpus)) :
             r.category = q.category /\ Contains(last.out.selected, r.id)

\* the numbers of currently wrong, never-attempted and answered-not-wrong ids in a list
CompositionOf(ids) ==
    [wrong |-> Cardinality({ k \in 1..Len(ids) :
                    Contains(load_progress.wrong_questions, ids[k]) }),
     unanswered |-> Cardinality({ k \in 1..Len(ids) : hist[ids[k]].checks = 0 }),
     reviewed |-> Cardinality({ k \in 1..Len(ids) :
                    /\ hist[ids[k]].checks > 0
                    /\ ~Contains(load_progress.wrong_questions, ids[k]) })]

\* C15: the composition counts top500 reports are the numbers of wrong,
\* never-attempted and answered-not-wrong questions of the batch it returns, and so
\* they sum to the reported count.
C15_CompositionIsOfBatch ==
    CuratedNow =>
       /\ last.out.composition = CompositionOf(last.out.questions)
       /\ last.out.composition.wrong + last.out.composition.unanswered
             + last.out.composition.reviewed = last.out.count

\* the last invocation was a hard that printed questions
HardNow == last.cmd = "hard" /\ last.error = "none" /\ "count" \in DOMAIN last.out

\* the questions of a corpus with at least one recorded check
AttemptedOf(questions) ==
    LET IsAttempted(q) == hist[q.id].checks >= 1
    IN  SelectSeq(questions, IsAttempted)

\* id x ranks strictly before id y: a higher lifetime error rate 1 - correct/checks,
\* or the same error rate and more checks
RanksBefore(x, y) ==
    LET ex == hist[x].checks - hist[x].correct
        ey == hist[y].checks - hist[y].correct
    IN  \/ ex * hist[y].checks > ey * hist[x].checks
        \/ ex * hist[y].checks = ey * hist[x].checks /\ hist[x].checks > hist[y].checks

Synonyms ==
    [dui |-> { <<"zheng", "que">>, <<"T", "R", "U", "E">>, <<"R", "I", "G", "H", "T">> },
     cuo |-> { <<"cuo", "wu">>, <<"F", "A", "L", "S", "E">>, <<"W", "R", "O", "N", "G">> }]

\* a word in every letter case
CaseVariants(word) ==
    { [k \in 1..Len(word) |->
          IF k \in lower /\ word[k] \in DOMAIN ToLower THEN ToLower[word[k]] ELSE word[k]] :
      lower \in SUBSET (1..Len(word)) }

\* the canonical answer a synonym spelling stands for
CanonicalOf(answer) ==
    CHOOSE c \in DOMAIN Synonyms :
       \E word \in Synonyms[c] : Strip(answer) \in CaseVariants(word)

\* C17: for a judge question, a check with a synonym spelling of an answer, in any
\* letter case, is judged as the check with the canonical answer is, and makes the
\* same step: the same payload and the same progress.json.
C17_SynonymsAsCanonical ==
    [][ (CheckedNow(last') /\ find_question_by_id(last'.args.id).type = "judge") =>
          LET q == find_question_by_id(last'.args.id)
          IN  /\ \A c \in DOMAIN Synonyms : \A word \in Synonyms[c] :
                    \A v \in CaseVariants(word) : IsCorrect(q, v) = IsCorrect(q, <<c>>)
              /\ \A answer \in JudgeAnswerArgs :
                    cmd_check(q.id, answer) => cmd_check(q.id, <<CanonicalOf(answer)>>) ]_vars

\* a judge question was checked with a synonym spelling and judged correct, after
\* another judge question was checked with a synonym spelling and judged wrong
C17_Witness ==
    /\ CheckedNow(last)
    /\ find_question_by_id(last.args.id).type = "judge"
    /\ last.out.correct
    /\ \E id \in CorpusIds :
          /\ find_question_by_id(id).type = "judge"
          /\ hist[id].last = "wrong"

\* C18: a command run on a progress.json that lacks one top-level field treats the
\* field as holding its default: no invocation fails on the absent key.
C18_MissingFieldIsDefault == last.error # "KeyError"

\* the record an invocation in flight saves when it runs alone on the file it loaded
Alone(f) ==
    LET loaded == ensure_fields(IF f.loaded = NoFile THEN _default_progress ELSE f.loaded)
        a == f.inv.args
    IN  IF f.inv.cmd = "check"
        THEN ProgressAfterCheck(loaded, find_question_by_id(a.id), f.check.is_correct)
        ELSE SetCursor(loaded, PosKey(a.vtype, a.subject),
                       Min(CursorOf(loaded, a.vtype, a.subject) + a.count,
                           Len(load_questions(a.subject, a.vtype))))

\* process p saved after process q, and both had loaded the same progress.json
SavedAfter(p, q) ==
    /\ {p, q} \subseteq DOMAIN running
    /\ p # q
    /\ running[p].pc = "done" /\ running[q].pc = "done"
    /\ running[p].inv.saved /\ running[q].inv.saved
    /\ running[p].loaded = running[q].loaded
    /\ running[p].saved_at > running[q].saved_at

\* C19: when two mutating invocations have both loaded the same progress.json before
\* either saved, the file after both saves is the later writer's result alone: the
\* earlier writer's update is not in it, and neither invocation reports an error.
C19_LastWriterWins ==
    \A p, q \in Procs :
       SavedAfter(p, q) =>
          /\ progress_file = Alone(running[p])
          /\ running[p].inv.error = "none" /\ running[p].inv.exit = 0
          /\ running[q].inv.error = "none" /\ running[q].inv.exit = 0

\* two checks of different questions overlapped: the file counts one answer, the later
\* writer's, and the earlier writer's question has no statistics
C19_Witness ==
    \E p, q \in Procs :
       /\ SavedAfter(p, q)
       /\ running[p].inv.cmd = "check" /\ running[q].inv.cmd = "check"
       /\ running[p].check.id # running[q].check.id
       /\ progress_file.total_answered = 1
       /\ StatsOf(progress_file, running[q].check.id).attempts = 0
       /\ hist[running[q].check.id].checks = 1

\* the selection and reporting commands
ReadOnlyCmds ==
    {"random", "exam", "topic-practice", "wrong", "favorites", "hard", "top500", "stats",
     "categories", "topics"}

\* C20: random, exam, topic-practice, wrong, favorites, hard, top500, stats, categories
\* and topics never write progress.json: whatever the file holds (or when there is no
\* file), and however the command ends, the file is the same after the invocation as
\* before it.
C20_SelectionNeverWrites ==
    [][ (ncmds' # ncmds /\ last'.cmd \in ReadOnlyCmds)
            => (progress_file' = progress_file /\ ~last'.saved) ]_vars

\* top500 has delivered a batch from a progress.json that holds a wrong answer and a
\* favorite
C20_Witness ==
    /\ last.cmd = "top500"
    /\ last.error = "none"
    /\ last.out.count > 0
    /\ progress_file # NoFile
    /\ progress_file.wrong_questions # <<>>
    /\ progress_file.favorites # <<>>

\* the favorites of a progress.json (none when there is no file)
FavoritesOf(file) == IF file = NoFile THEN <<>> ELSE Get(file, "favorites", <<>>)

\* the step is an invocation of favorite, or of unfavorite, for the id
FavoriteStep(qid) == ncmds' # ncmds /\ last'.cmd = "favorite" /\ last'.args.id = qid
UnfavoriteStep(qid) == ncmds' # ncmds /\ last'.cmd = "unfavorite" /\ last'.args.id = qid

\* the favorites as they were before the invocation that `last` reports
FavoritesBeforeLast ==
    IF last.cmd = "favorite" /\ last.saved
    THEN SubSeq(FavoritesOf(progress_file), 1, Len(FavoritesOf(progress_file)) - 1)
    ELSE FavoritesOf(progress_file)

\* what holds of favorites whether or not the id was there before: no id twice, favorite
\* of an id present and unfavorite of an id absent change nothing, no other command
\* changes favorites
FavoritesSetSteps ==
    /\ \A qid \in FavoriteArgs : Occurrences(FavoritesOf(progress_file'), qid) <= 1
    /\ \A qid \in FavoriteArgs :
          FavoriteStep(qid) /\ Contains(FavoritesOf(progress_file), qid)
              => progress_file' = progress_file
    /\ \A qid \in FavoriteArgs :
          UnfavoriteStep(qid) /\ ~Contains(FavoritesOf(progress_file), qid)
              => progress_file' = progress_file
    /\ (ncmds' # ncmds /\ last'.cmd \notin {"favorite", "unfavorite"})
          => FavoritesOf(progress_file') = FavoritesOf(progress_file)

\* the step is unfavorite of the id that the invocation before it was a favorite of
UnfavoriteAfterFavorite ==
    \E qid \in FavoriteArgs :
       /\ UnfavoriteStep(qid)
       /\ last.cmd = "favorite" /\ last.args # None /\ last.args.id = qid

\* C21 as stated: favorites is a set under favorite/unfavorite, and favorite followed
\* by unfavorite of the same id restores the favorites there were before the favorite,
\* whatever they were.
C21_FavoriteThenUnfavoriteRestores ==
    [][ /\ FavoritesSetSteps
        /\ UnfavoriteAfterFavorite => FavoritesOf(progress_file') = FavoritesBeforeLast ]_vars

\* C21, amended: favorites never holds an id twice, favorite of an id present and
\* unfavorite of an id absent change nothing, no other command changes favorites, and
\* favorite followed by unfavorite of the same id restores the previous favorites when
\* the id was not among them (when it was, the pair removes it).
C21_FavoritesIsASet ==
    [][ /\ FavoritesSetSteps
        /\ UnfavoriteAfterFavorite =>
              FavoritesOf(progress_file') =
                  SelectSeq(FavoritesBeforeLast, LAMBDA x : x # last'.args.id)
        /\ (UnfavoriteAfterFavorite /\ ~Contains(FavoritesBeforeLast, last'.args.id))
              => FavoritesOf(progress_file') = FavoritesBeforeLast ]_vars

\* favorite 1, favorite 4, unfavorite 4: the favorites are back to question 1 alone
C21_Witness ==
    /\ last.cmd = "unfavorite"
    /\ last.saved
    /\ last.args.id = 4
    /\ FavoritesOf(progress_file) = <<1>>

\* the exam records of a progress.json (none when there is no file)
ExamsOf(file) == IF file = NoFile THEN <<>> ELSE Get(file, "mock_exams", <<>>)

\* the record a command holds after load_progress and ensure_fields
Loaded(file) == ensure_fields(IF file = NoFile THEN _default_progress ELSE file)

\* C22: a record-exam that records appends exactly one record at the end of mock_exams
\* and leaves the earlier records, their order and every other field as they were; no
\* other invocation changes mock_exams; stats reports the last 5 records (all of them
\* when there are fewer) in the order of mock_exams.
C22_ExamsAppendOnly ==
    [][ ncmds' # ncmds =>
          LET before == ExamsOf(progress_file)
              after == ExamsOf(progress_file')
          IN  /\ (last'.cmd = "record-exam" /\ last'.error = "none") =>
                    /\ Len(after) = Len(before) + 1
                    /\ SubSeq(after, 1, Len(before)) = before
                    /\ after[Len(after)].passed = last'.out.passed
                    /\ \A f \in DOMAIN progress_file' \ {"mock_exams"} :
                          progress_file'[f] = Loaded(progress_file)[f]
              /\ (last'.cmd # "record-exam" \/ last'.error # "none") => after = before
              /\ (last'.cmd = "stats" /\ last'.error = "none") =>
                    LET shown == last'.out.mock_exams
                    IN  /\ Len(shown) = Min(5, Len(before))
                        /\ \A k \in 1..Len(shown) :
                              shown[k] = before[Len(before) - Len(shown) + k] ]_vars

\* stats after two record-exam on top of five earlier exams: it shows records 3 to 7
C22_Witness ==
    /\ last.cmd = "stats"
    /\ Len(ExamsOf(progress_file)) = 7
    /\ Len(last.out.mock_exams) = 5
    /\ last.out.mock_exams[1] = PastExams(5)[3]
    /\ last.out.mock_exams[5].date \in {"2026-01-01 10:00", "2026-01-02 10:00"}

\* the categories of progress.json that were answered at least 5 times with an accuracy
\* correct/answered below 80%
WeakNow ==
    LET categories == Get(Loaded(progress_file), "categories", EmptyDict)
    IN  { cat \in DOMAIN categories :
             /\ categories[cat].answered >= 5
             /\ categories[cat].correct * 100 < 80 * categories[cat].answered }

\* category x has an accuracy correct/answered no higher than category y
NoMoreAccurate(x, y) ==
    LET categories == Loaded(progress_file).categories
    IN  categories[x].correct * categories[y].answered
            <= categories[y].correct * categories[x].answered

\* C23: stats reports as weak categories exactly the categories answered at least 5
\* times with an accuracy correct/answered below 80%, in ascending order of that
\* accuracy, cut to the first 5.
C23_WeakAscendingByAccuracy ==
    (last.cmd = "stats" /\ last.error = "none") =>
        LET weak == last.out.weak_categories
            names == { weak[k].name : k \in 1..Len(weak) }
        IN  /\ Len(weak) = Min(5, Cardinality(WeakNow))
            /\ Cardinality(names) = Len(weak)
            /\ names \subseteq WeakNow
            /\ \A i, j \in 1..Len(weak) : i < j => NoMoreAccurate(weak[i].name, weak[j].name)
            /\ \A x \in names, y \in WeakNow \ names : NoMoreAccurate(x, y)

\* a list of questions holds an id twice
HasRepeatedId(questions) ==
    \E i, j \in 1..Len(questions) : i < j /\ questions[i].id = questions[j].id

\* the step is an invocation of the importer that wrote its data file
ImportWrote == ncmds' # ncmds /\ last'.cmd = "import" /\ last'.out # None /\ last'.out.written

\* C24: every data file the importer writes has pairwise distinct ids, whichever pages
\* were fetched and whichever were skipped; and the validator reports every file that
\* holds an id twice as failing, and exits with status 1.
C24_ImportedIdsDistinct ==
    [][ /\ ImportWrote => ~HasRepeatedId(data'[last'.out.file])
        /\ (ncmds' # ncmds /\ last'.cmd = "validate") =>
              \A key \in DOMAIN data :
                 HasRepeatedId(data[key]) =>
                    /\ last'.exit = 1
                    /\ last'.out # None
                    /\ key \in last'.out.failing ]_vars

\* the validator has run on the edited file and on a file imported with its second page
\* skipped: it fails the edited file alone
C24_Witness ==
    /\ last.cmd = "validate"
    /\ last.error = "ValidationFailed"
    /\ last.exit = 1
    /\ last.out.failing = {PosKey("d", 1)}
    /\ PosKey("c1", 1) \in DOMAIN data
    /\ Len(data[PosKey("c1", 1)]) = RemoteTotal - PAGE_SIZE

\* C25: the id the importer assigns is stable: when an import rewrites a data file, each
\* question that is in the file before and after has the same id in both, whichever
\* pages either run skipped.
C25_ImportedIdsStable ==
    [][ (ImportWrote /\ last'.out.file \in DOMAIN data) =>
           LET old == data[last'.out.file]
               new == data'[last'.out.file]
           IN  \A i \in 1..Len(old), j \in 1..Len(new) :
                  old[i].text = new[j].text => old[i].id = new[j].id ]_vars

\* the sum of a counter over the given categories
RECURSIVE SumOver(_, _, _)
SumOver(categories, cats, counter) ==
    IF cats = {} THEN 0
    ELSE LET cat == CHOOSE c \in cats : TRUE
         IN  categories[cat][counter] + SumOver(categories, cats \ {cat}, counter)

\* C26: starting from no progress.json, after any sequence of invocations run one after
\* the other, total_answered is the sum of the categories' answered counts,
\* total_correct the sum of their correct counts, each category's answered count is the
\* length of its answered_ids, and correct <= answered for the totals and per category.
C26_CountersConsistent ==
    LET progress == Loaded(progress_file)
        categories == progress.categories
    IN  /\ progress.total_answered = SumOver(categories, DOMAIN categories, "answered")
        /\ progress.total_correct = SumOver(categories, DOMAIN categories, "correct")
        /\ progress.total_correct <= progress.total_answered
        /\ \A cat \in DOMAIN categories :
              /\ categories[cat].answered = Len(categories[cat].answered_ids)
              /\ categories[cat].correct <= categories[cat].answered

\* three checks in two categories, one question checked twice, two of them right
C26_Witness ==
    /\ progress_file # NoFile
    /\ progress_file.total_answered = 3
    /\ progress_file.total_correct = 2
    /\ Cardinality(DOMAIN progress_file.categories) = 2
    /\ \E cat \in DOMAIN progress_file.categories :
          /\ progress_file.categories[cat].answered = 2
          /\ Occurrences(progress_file.categories[cat].answered_ids,
                         progress_file.categories[cat].answered_ids[1]) = 2

\* progress.json after an invocation, given as it is held in flight, runs alone on the
\* given file: a check counts its answer, a sequential that is not past the end moves
\* the cursor, any other invocation saves nothing
AppliedTo(f, file) ==
    LET a == f.inv.args
    IN  IF f.inv.cmd = "check" /\ f.check # None
        THEN ProgressAfterCheck(Loaded(file), find_question_by_id(a.id), f.check.is_correct)
        ELSE IF f.inv.cmd = "sequential" /\ a # None
                /\ CursorOf(Loaded(file), a.vtype, a.subject)
                      < Len(load_questions(a.subject, a.vtype))
        THEN SetCursor(Loaded(file), PosKey(a.vtype, a.subject),
                       EndPos(CursorOf(Loaded(file), a.vtype, a.subject), a.count,
                              Len(load_questions(a.subject, a.vtype))))
        ELSE file

\* the processes that have saved, in the order of their saves
SaveOrder ==
    LET done == { p \in DOMAIN running : running[p].pc = "done" }
    IN  [k \in 1..Cardinality(done) |-> CHOOSE p \in done : running[p].saved_at = k]

\* progress.json after the invocations of the chosen processes, in the order of their
\* saves from the k-th on, run one after the other on the given file
RECURSIVE AppliedInOrder(_, _, _)
AppliedInOrder(k, chosen, file) ==
    IF k > Len(SaveOrder) THEN file
    ELSE AppliedInOrder(k + 1, chosen,
                        IF SaveOrder[k] \in chosen
                        THEN AppliedTo(running[SaveOrder[k]], file) ELSE file)

\* C27: whatever the interleaving of the loads and saves of overlapping invocations,
\* progress.json is always what some of the invocations that have saved, run one after
\* the other in the order of their saves from no file, leave behind; so the counters
\* stay consistent with the categories although updates are lost.
C27_SavedIsSomeSequentialRun ==
    /\ \E chosen \in SUBSET { p \in DOMAIN running : running[p].pc = "done" } :
          progress_file = AppliedInOrder(1, chosen, NoFile)
    /\ C26_CountersConsistent

\* three checks have saved; the second to save had loaded before the first saved and
\* the third after the second saved: the file counts two answers and holds the last
\* two checks, not the first
C27_Witness ==
    /\ Cardinality(DOMAIN running) = 3
    /\ \A p \in DOMAIN running : running[p].pc = "done" /\ running[p].inv.cmd = "check"
                                    /\ running[p].inv.saved
    /\ running[SaveOrder[2]].loaded = NoFile
    /\ running[SaveOrder[3]].loaded # NoFile
    /\ progress_file.total_answered = 2
    /\ progress_file = AppliedInOrder(1, {SaveOrder[2], SaveOrder[3]}, NoFile)
    /\ progress_file # AppliedInOrder(1, {SaveOrder[1], SaveOrder[3]}, NoFile)

\* C28: a sequential call without reset never moves the saved cursor of its scope
\* backwards and never makes it negative, whatever integer --count is given.
C28_CursorNeverBackwards ==
    [][ (/\ ncmds' # ncmds
         /\ last'.cmd = "sequential"
         /\ last'.args # None
         /\ ~last'.args.reset) =>
          LET a == last'.args
          IN  /\ CursorOf(Loaded(progress_file'), a.vtype, a.subject)
                    >= CursorOf(Loaded(progress_file), a.vtype, a.subject)
              /\ CursorOf(Loaded(progress_file'), a.vtype, a.subject) >= 0 ]_vars

\* the scope of the one data file, and its cursor in a progress.json
DrillKey == CHOOSE key \in DOMAIN data : TRUE
DrillCursor(file) == Get(Loaded(file).sequential_pos, DrillKey, 0)

\* sequential has reported completion with the cursor at the end of the file
DrillCompleted ==
    /\ last.cmd = "sequential"
    /\ last.error = "none"
    /\ last.out.message = "completed"
    /\ DrillCursor(progress_file) = Len(data[DrillKey])

\* C29: on a fixed non-empty corpus, sequential invoked repeatedly with count >= 1 and
\* no reset returns, at each call before the end, the questions from the cursor up to
\* the new cursor, which is further on: every question once, in order.  It eventually
\* reports completion with the cursor at the end; from then on every call reports
\* completion without error and leaves progress.json as it was.
C29_DrillCompletes ==
    /\ [][ ncmds' # ncmds =>
             LET questions == data[DrillKey]
                 c == DrillCursor(progress_file)
                 e == DrillCursor(progress_file')
             IN  IF c < Len(questions)
                 THEN /\ e > c
                      /\ last'.error = "none"
                      /\ last'.out.message = "questions"
                      /\ last'.out.questions = IdsBetween(questions, c, e)
                 ELSE /\ last'.error = "none" /\ last'.exit = 0
                      /\ last'.out.message = "completed"
                      /\ progress_file' = progress_file ]_vars
    /\ (DrillCursor(progress_file) = 0) ~> DrillCompleted
    /\ [][ DrillCompleted => DrillCompleted' ]_vars

\* completion was reported twice in a row on a file of one question
C29_Witness ==
    /\ DrillCompleted
    /\ ncmds = MaxCmds
    /\ Len(data[DrillKey]) = 1

\* the questions of a corpus that were checked and are not currently wrong
ReviewedOf(questions) ==
    LET IsReviewed(q) ==
            hist[q.id].checks > 0 /\ ~Contains(Loaded(progress_file).wrong_questions, q.id)
    IN  SelectSeq(questions, IsReviewed)

ImporterAt(pc) == 1 \in DOMAIN running /\ running[1].pc = pc

\* C31: during an import the first page is fetched once and every later page at most 3
\* times; when the import has returned, every later page was tried, a page is left
\* out only after 3 failed fetches, and the file written holds exactly the questions
\* of the pages whose fetch succeeded, in page order; an import that started always
\* returns or dies.
C31_BoundedRetry ==
    /\ [](1 \in DOMAIN running =>
            LET f == running[1]
            IN  /\ \A p \in 1..TotalPages : f.tries[p] <= (IF p = 1 THEN 1 ELSE 3)
                /\ f.pc = "returned" =>
                     LET raws == FetchedFrom(1, f.got)
                         written == data[last.out.file]
                     IN  /\ \A p \in 2..TotalPages :
                               /\ f.tries[p] >= 1
                               /\ p \notin f.got => f.tries[p] = 3
                         /\ last.out.written
                         /\ last.out.total = Len(raws)
                         /\ [k \in 1..Len(written) |-> written[k].text] =
                               [k \in 1..Len(raws) |-> raws[k].question]
                         /\ written = fetch_subject(f.subject, f.vehicle_type, f.got))
    /\ (ImporterAt("fetching") ~> (ImporterAt("returned") \/ ImporterAt("died")))

\* an import has returned after page 2 failed three times and page 3 was fetched at the
\* second attempt: the file holds the 101 questions of pages 1 and 3
C31_Witness ==
    /\ ImporterAt("returned")
    /\ running[1].tries[2] = 3
    /\ running[1].got = {1, 3}
    /\ running[1].tries[3] = 2
    /\ last.out.total = Len(PageList(1)) + Len(PageList(3))

====
